---- MODULE Spec2Model ----
(***************************************************************************)
(* The e-commerce backend's request handlers (controllers/order.ts,        *)
(* controllers/product.js, the adminOnly middleware) over a document store *)
(* and a key-value cache.  Every handler is an async function: each await  *)
(* of a store or cache call is one atomic step, and the steps of different *)
(* requests interleave freely.                                             *)
(***************************************************************************)
EXTENDS Integers, Sequences, FiniteSets, TLC

\* ------------------------------------------------------------ bounds

\* Requests the model lets start (each occupies one slot for good).
MaxReq == 4
\* Ids the store can allocate to products, orders and reviews.
MaxProducts == 3
MaxOrders == 2
MaxReviews == 3

\* --------------------------------------------------------- the state

VARIABLES
    products,   \* Product collection: _id -> document (live documents only)
    orders,     \* Order collection:   _id -> document
    reviews,    \* Review collection:  _id -> document
    nextId,     \* ids allocated so far, per collection (ObjectIds are never reused)
    cache,      \* redis: key -> serialized JSON (present keys only)
    req,        \* the requests: slot -> handler, position, locals, response
    scenario    \* what a run is given: seq (a request starts only when no other
                \* is running), n (how many requests may start) and status0 (the
                \* status of order 1 at the start)

vars == <<products, orders, reviews, nextId, cache, req, scenario>>

Slots == 1..MaxReq

\* ------------------------------------------------------------- users

\* The User collection is read, never written, by these handlers.
UserIds == {"u1", "u2"}
\* A query id: absent (""), a user's, or one that matches no user.
QueryIds == {"", "u1", "u2", "u9"}

UserDoc(id) ==
    [_id |-> id, name |-> "name-" \o id, photo |-> "photo-" \o id,
     role |-> IF id = "u1" THEN "admin" ELSE "user"]

\* User.findById: <<doc>> or <<>> (null).
UserFindById(id) == IF id \in UserIds THEN <<UserDoc(id)>> ELSE <<>>

\* ---------------------------------------------------------- requests

Idle ==
    [h |-> "idle", pc |-> "idle", a |-> 0, b |-> 0, q |-> "", body |-> <<>>,
     doc |-> <<>>, doc2 |-> <<>>, code |-> 0, msg |-> "", out |-> <<>>,
     hit |-> FALSE, writes |-> 0, invAt |-> -1, alone |-> FALSE, ran |-> FALSE,
     found |-> FALSE, avg |-> <<>>, age |-> 0]

InFlight(r) == req[r].pc \notin {"idle", "done"}
Quiet == \A r \in Slots : ~InFlight(r)

\* A free slot; slots are taken in order.
Free(r) ==
    /\ req[r].pc = "idle"
    /\ IF r = 1 THEN TRUE ELSE req[r - 1].pc # "idle"
    /\ r <= scenario.n
    /\ scenario.seq => Quiet

\* A request that starts while others run is not alone, and ends their being alone.
Begin(r, rec) ==
    req' = [s \in Slots |->
              IF s = r THEN [rec EXCEPT !.alone = Quiet]
              ELSE IF InFlight(s) THEN [req[s] EXCEPT !.alone = FALSE]
              ELSE req[s]]

\* res.status(code).json(...) or next(new ErrorHandler(msg, code)): the request ends.
Respond(rec, code, msg, out) ==
    [rec EXCEPT !.pc = "done", !.code = code, !.msg = msg, !.out = out]

Set(r, rec) == req' = [req EXCEPT ![r] = rec]

\* ------------------------------------------------------ JSON and keys

\* JSON.stringify of a document: its fields in schema order as <<key, value>>
\* pairs (an ObjectId is written as its string).
Pairs(keys, val) == [i \in DOMAIN keys |-> <<keys[i], val[keys[i]]>>]

\* JSON.parse of an object text: the keys in order and the value of each.
ParseObj(text) ==
    [keys |-> [i \in DOMAIN text |-> text[i][1]],
     val |-> [k \in {text[i][1] : i \in DOMAIN text} |->
                text[CHOOSE i \in DOMAIN text : text[i][1] = k][2]]]

\* JSON.stringify of a parsed object.
StringifyObj(o) == Pairs(o.keys, o.val)

\* JSON.parse / JSON.stringify of an array of objects.
ParseArr(text) == [i \in DOMAIN text |-> ParseObj(text[i])]
StringifyArr(arr) == [i \in DOMAIN arr |-> StringifyObj(arr[i])]

\* populate("user", "name"): the referenced user's _id and name, or null.
PopulateName(uid) ==
    IF uid \in UserIds
    THEN <<Pairs(<<"_id", "name">>, [_id |-> uid, name |-> UserDoc(uid).name])>>
    ELSE <<>>

OrderFields == <<"_id", "user", "status", "orderItems">>
OrderJSON(o) ==
    Pairs(OrderFields,
          [_id |-> ToString(o._id), user |-> o.user, status |-> o.status,
           orderItems |-> o.orderItems])
OrderJSONPopulated(o) ==
    Pairs(OrderFields,
          [_id |-> ToString(o._id), user |-> PopulateName(o.user),
           status |-> o.status, orderItems |-> o.orderItems])

\* The ids of a collection in insertion (natural) order.
RECURSIVE Ascending(_)
Ascending(S) ==
    IF S = {} THEN <<>>
    ELSE LET m == CHOOSE x \in S : \A y \in S : x <= y
         IN <<m>> \o Ascending(S \ {m})

Reverse(s) == [i \in DOMAIN s |-> s[Len(s) + 1 - i]]

\* The cache keys.
KeyLatest == <<"latest-products">>
KeyCategories == <<"categories">>
KeyAllProducts == <<"all-products">>
KeyAllOrders == <<"all-orders">>
KeyProduct(id) == <<"product-", ToString(id)>>
KeyOrder(id) == <<"order-", ToString(id)>>
KeyMyOrders(uid) == <<"my-orders-", uid>>
KeyReviews(id) == <<"reviews-", ToString(id)>>
AdminKeys == {<<"admin-stats">>, <<"admin-pie-charts">>, <<"admin-bar-charts">>,
              <<"admin-line-charts">>}

\* redis.get / setex / del.
RedisHit(key) == key \in DOMAIN cache
RedisGet(key) == cache[key].text
RedisSetex(key, ttl, text) == (key :> [text |-> text, ttl |-> ttl]) @@ cache

\* redisTTL, the default time to live, longer than the 30 of the product lists.
RedisTTL == 60
RedisDel(keys) == [k \in DOMAIN cache \ keys |-> cache[k]]

\* invalidateCache's tag set; userId, orderId are <<>> when not given and
\* productId is the list of product ids (one id or several).
NoTags ==
    [product |-> FALSE, order |-> FALSE, admin |-> FALSE, review |-> FALSE,
     userId |-> <<>>, orderId |-> <<>>, productId |-> <<>>]

\* The keys invalidateCache deletes for a tag set.
InvalidatedKeys(t) ==
    (IF t.product
     THEN {KeyLatest, KeyCategories, KeyAllProducts}
          \cup {KeyProduct(t.productId[i]) : i \in DOMAIN t.productId}
     ELSE {})
    \cup (IF t.order
          THEN {KeyAllOrders}
               \cup {KeyMyOrders(t.userId[i]) : i \in DOMAIN t.userId}
               \cup {KeyOrder(t.orderId[i]) : i \in DOMAIN t.orderId}
          ELSE {})
    \cup (IF t.admin THEN AdminKeys ELSE {})
    \cup (IF t.review
          THEN {KeyReviews(t.productId[i]) : i \in DOMAIN t.productId}
          ELSE {})

\* await invalidateCache(tags), the handler's last store or cache call, and the
\* success response that follows it.
Invalidate(r, tags, code, msg) ==
    /\ cache' = RedisDel(InvalidatedKeys(tags))
    /\ Set(r, Respond([req[r] EXCEPT !.invAt = req[r].writes], code, msg, <<>>))

\* --------------------------------------------------- order.ts: reads

\* Order.find({ user }) / Order.find() / Order.findById, as the handlers use them.
OrdersOfUser(uid) ==
    LET ids == Ascending({i \in DOMAIN orders : orders[i].user = uid})
    IN [k \in DOMAIN ids |-> OrderJSON(orders[ids[k]])]
OrdersAll ==
    LET ids == Ascending(DOMAIN orders)
    IN [k \in DOMAIN ids |-> OrderJSONPopulated(orders[ids[k]])]

\* myOrders: the id check, then redis.get(key); a hit answers at once.
MyOrdersGet(r, uid) ==
    /\ Free(r)
    /\ LET rec == [Idle EXCEPT !.h = "myOrders", !.q = uid]
       IN IF uid = ""
          THEN Begin(r, Respond(rec, 400, "Invalid user ID", <<>>))
          ELSE IF RedisHit(KeyMyOrders(uid))
          THEN Begin(r, Respond([rec EXCEPT !.hit = TRUE], 200, "",
                                StringifyArr(ParseArr(RedisGet(KeyMyOrders(uid))))))
          ELSE Begin(r, [rec EXCEPT !.pc = "find"])
    /\ UNCHANGED <<products, orders, reviews, nextId, cache, scenario>>

\* myOrders, miss: Order.find({ user: userId }).
MyOrdersFind(r) ==
    /\ req[r].h = "myOrders" /\ req[r].pc = "find"
    /\ Set(r, [req[r] EXCEPT !.pc = "setex", !.out = OrdersOfUser(req[r].q)])
    /\ UNCHANGED <<products, orders, reviews, nextId, cache, scenario>>

\* myOrders, miss: redis.setex(key, redisTTL, JSON.stringify(orders)) and the response.
MyOrdersSetex(r) ==
    /\ req[r].h = "myOrders" /\ req[r].pc = "setex"
    /\ cache' = RedisSetex(KeyMyOrders(req[r].q), RedisTTL, req[r].out)
    /\ Set(r, Respond(req[r], 200, "", req[r].out))
    /\ UNCHANGED <<products, orders, reviews, nextId, scenario>>

\* allOrders: redis.get("all-orders").
AllOrdersGet(r) ==
    /\ Free(r)
    /\ LET rec == [Idle EXCEPT !.h = "allOrders"]
       IN IF RedisHit(KeyAllOrders)
          THEN Begin(r, Respond([rec EXCEPT !.hit = TRUE], 200, "",
                                StringifyArr(ParseArr(RedisGet(KeyAllOrders)))))
          ELSE Begin(r, [rec EXCEPT !.pc = "find"])
    /\ UNCHANGED <<products, orders, reviews, nextId, cache, scenario>>

\* allOrders, miss: Order.find().populate("user", "name").
AllOrdersFind(r) ==
    /\ req[r].h = "allOrders" /\ req[r].pc = "find"
    /\ Set(r, [req[r] EXCEPT !.pc = "setex", !.out = OrdersAll])
    /\ UNCHANGED <<products, orders, reviews, nextId, cache, scenario>>

AllOrdersSetex(r) ==
    /\ req[r].h = "allOrders" /\ req[r].pc = "setex"
    /\ cache' = RedisSetex(KeyAllOrders, RedisTTL, req[r].out)
    /\ Set(r, Respond(req[r], 200, "", req[r].out))
    /\ UNCHANGED <<products, orders, reviews, nextId, scenario>>

\* getSingleOrder: the id check, then redis.get(`order-${id}`).
GetSingleOrderGet(r, id) ==
    /\ Free(r)
    /\ LET rec == [Idle EXCEPT !.h = "getSingleOrder", !.a = id]
       IN IF id = 0
          THEN Begin(r, Respond(rec, 400, "Order ID is required", <<>>))
          ELSE IF RedisHit(KeyOrder(id))
          THEN Begin(r, Respond([rec EXCEPT !.hit = TRUE], 200, "",
                                StringifyObj(ParseObj(RedisGet(KeyOrder(id))))))
          ELSE Begin(r, [rec EXCEPT !.pc = "find"])
    /\ UNCHANGED <<products, orders, reviews, nextId, cache, scenario>>

\* getSingleOrder, miss: Order.findById(id).populate("user", "name"); null is a 404.
GetSingleOrderFind(r) ==
    /\ req[r].h = "getSingleOrder" /\ req[r].pc = "find"
    /\ IF req[r].a \in DOMAIN orders
       THEN Set(r, [req[r] EXCEPT !.pc = "setex",
                                  !.out = OrderJSONPopulated(orders[req[r].a])])
       ELSE Set(r, Respond(req[r], 404, "Order not found", <<>>))
    /\ UNCHANGED <<products, orders, reviews, nextId, cache, scenario>>

GetSingleOrderSetex(r) ==
    /\ req[r].h = "getSingleOrder" /\ req[r].pc = "setex"
    /\ cache' = RedisSetex(KeyOrder(req[r].a), RedisTTL, req[r].out)
    /\ Set(r, Respond(req[r], 200, "", req[r].out))
    /\ UNCHANGED <<products, orders, reviews, nextId, scenario>>

\* ----------------------------------------------- order.ts: mutations

\* A field the request body does not carry.
Undefined == -1
\* JavaScript's !x for a numeric field: undefined and 0 are falsy.
FalsyNum(x) == x = Undefined \/ x = 0

Statuses == {"Processing", "Shipped", "Delivered"}

\* The switch with its Shipped case lost: a Shipped order falls back.
NextStatusMutant(status) ==
    CASE status = "Processing" -> "Shipped"
      [] status = "Shipped" -> "Processing"
      [] OTHER -> "Delivered"

\* The switch of processOrder.
NextStatus(status) ==
    CASE status = "Processing" -> "Shipped"
      [] status = "Shipped" -> "Delivered"
      [] OTHER -> "Delivered"

\* The request bodies of newOrder the model draws from: a complete one per user
\* and item list, and that body with one required field missing or zero.
ItemLists ==
    {<<>>, <<[productId |-> 1, quantity |-> 1]>>,
     <<[productId |-> 1, quantity |-> 1], [productId |-> 2, quantity |-> 1]>>}
CompleteBody(user, items) ==
    [shippingInfo |-> "addr", orderItems |-> [def |-> TRUE, items |-> items],
     user |-> user, subtotal |-> 10, tax |-> 1, shippingCharges |-> Undefined,
     discount |-> Undefined, total |-> 11]
NewOrderBodies ==
    LET b == CompleteBody("u2", <<[productId |-> 1, quantity |-> 1]>>)
    IN {CompleteBody(u, it) : u \in UserIds, it \in ItemLists}
       \cup {[b EXCEPT !.shippingInfo = ""],
             [b EXCEPT !.orderItems = [def |-> FALSE, items |-> <<>>]],
             [b EXCEPT !.user = ""],
             [b EXCEPT !.subtotal = Undefined], [b EXCEPT !.subtotal = 0],
             [b EXCEPT !.tax = Undefined], [b EXCEPT !.tax = 0],
             [b EXCEPT !.total = Undefined], [b EXCEPT !.total = 0],
             [b EXCEPT !.shippingCharges = 0, !.discount = 0]}

\* The validation of newOrder (line 87).
NewOrderInvalid(b) ==
    \/ b.shippingInfo = ""
    \/ ~b.orderItems.def
    \/ b.user = ""
    \/ FalsyNum(b.subtotal)
    \/ FalsyNum(b.tax)
    \/ FalsyNum(b.total)

\* reduceStock(orderItems): each ordered product's stock goes down by the
\* quantity.  For an item whose product is gone it either throws (the items
\* before it are already saved) or passes over it.
RECURSIVE ReduceStock(_, _, _)
ReduceStock(ps, items, throws) ==
    IF items = <<>> THEN [products |-> ps, threw |-> FALSE]
    ELSE LET it == Head(items)
         IN IF it.productId \in DOMAIN ps
            THEN ReduceStock([ps EXCEPT ![it.productId].stock = @ - it.quantity],
                             Tail(items), throws)
            ELSE IF throws THEN [products |-> ps, threw |-> TRUE]
            ELSE ReduceStock(ps, Tail(items), throws)

\* newOrder: the validation, then Order.create (the schema sets status Processing).
NewOrderCreate(r, b) ==
    /\ Free(r)
    /\ LET rec == [Idle EXCEPT !.h = "newOrder", !.body = b]
           id == nextId.o + 1
       IN IF NewOrderInvalid(b)
          THEN /\ Begin(r, Respond(rec, 400, "Please enter all required fields", <<>>))
               /\ UNCHANGED <<orders, nextId>>
          ELSE /\ id <= MaxOrders
               /\ orders' = (id :> [_id |-> id, user |-> b.user, status |-> "Processing",
                                    orderItems |-> b.orderItems.items]) @@ orders
               /\ nextId' = [nextId EXCEPT !.o = id]
               /\ Begin(r, [rec EXCEPT !.pc = "stock", !.a = id, !.writes = 1])
    /\ UNCHANGED <<products, reviews, cache, scenario>>

\* newOrder: await reduceStock(orderItems).
NewOrderReduceStock(r) ==
    /\ req[r].h = "newOrder" /\ req[r].pc = "stock"
    /\ \E throws \in BOOLEAN :
         LET got == ReduceStock(products, req[r].body.orderItems.items, throws)
         IN /\ products' = got.products
            /\ IF got.threw
               THEN Set(r, Respond(req[r], 500, "Product Not Found", <<>>))
               ELSE Set(r, [req[r] EXCEPT !.pc = "inv", !.writes = @ + 1])
    /\ UNCHANGED <<orders, reviews, nextId, cache, scenario>>

\* newOrder: await invalidateCache({product, order, admin, userId, productId}).
NewOrderInvalidate(r) ==
    /\ req[r].h = "newOrder" /\ req[r].pc = "inv"
    /\ LET items == req[r].body.orderItems.items
       IN Invalidate(r, [NoTags EXCEPT !.product = TRUE, !.order = TRUE, !.admin = TRUE,
                                       !.userId = <<req[r].body.user>>,
                                       !.productId = [i \in DOMAIN items |-> items[i].productId]],
                     201, "Order placed successfully")
    /\ UNCHANGED <<products, orders, reviews, nextId, scenario>>

\* processOrder: the id check, Order.findById, and the switch on order.status.
ProcessOrderFind(r, id) ==
    /\ Free(r)
    /\ LET rec == [Idle EXCEPT !.h = "processOrder", !.a = id]
       IN IF id = 0
          THEN Begin(r, Respond(rec, 400, "Order ID is required", <<>>))
          ELSE IF id \notin DOMAIN orders
          THEN Begin(r, Respond(rec, 404, "Order not found", <<>>))
          ELSE Begin(r, [rec EXCEPT !.pc = "save", !.doc = <<orders[id]>>,
                                    !.doc2 = <<[orders[id] EXCEPT
                                                 !.status = NextStatus(orders[id].status)]>>])
    /\ UNCHANGED <<products, orders, reviews, nextId, cache, scenario>>

\* processOrder: await order.save().  save() writes the modified paths only (here
\* status, when the switch changed it) and throws when the document is gone.
ProcessOrderSave(r) ==
    /\ req[r].h = "processOrder" /\ req[r].pc = "save"
    /\ LET id == req[r].a
           old == req[r].doc[1]
           new == req[r].doc2[1]
       IN IF id \notin DOMAIN orders
          THEN /\ Set(r, Respond(req[r], 500, "DocumentNotFoundError", <<>>))
               /\ UNCHANGED orders
          ELSE /\ orders' = IF new.status # old.status
                            THEN [orders EXCEPT ![id].status = new.status]
                            ELSE orders
               /\ Set(r, [req[r] EXCEPT !.pc = "inv", !.writes = @ + 1])
    /\ UNCHANGED <<products, reviews, nextId, cache, scenario>>

\* processOrder invalidating with product: true.
ProcessOrderInvalidateMutant(r) ==
    /\ req[r].h = "processOrder" /\ req[r].pc = "inv"
    /\ Invalidate(r, [NoTags EXCEPT !.product = TRUE, !.order = TRUE, !.admin = TRUE,
                                    !.userId = <<req[r].doc[1].user>>,
                                    !.orderId = <<req[r].doc[1]._id>>],
                  200, "Order processed successfully")
    /\ UNCHANGED <<products, orders, reviews, nextId, scenario>>

\* processOrder: await invalidateCache({order, admin, userId, orderId}).
ProcessOrderInvalidate(r) ==
    /\ req[r].h = "processOrder" /\ req[r].pc = "inv"
    /\ Invalidate(r, [NoTags EXCEPT !.order = TRUE, !.admin = TRUE,
                                    !.userId = <<req[r].doc[1].user>>,
                                    !.orderId = <<req[r].doc[1]._id>>],
                  200, "Order processed successfully")
    /\ UNCHANGED <<products, orders, reviews, nextId, scenario>>

\* deleteOrder: the id check and Order.findById.
DeleteOrderFind(r, id) ==
    /\ Free(r)
    /\ LET rec == [Idle EXCEPT !.h = "deleteOrder", !.a = id]
       IN IF id = 0
          THEN Begin(r, Respond(rec, 400, "Order ID is required", <<>>))
          ELSE IF id \notin DOMAIN orders
          THEN Begin(r, Respond(rec, 404, "Order not found", <<>>))
          ELSE Begin(r, [rec EXCEPT !.pc = "delete", !.doc = <<orders[id]>>])
    /\ UNCHANGED <<products, orders, reviews, nextId, cache, scenario>>

\* deleteOrder answering right after the delete, its invalidation forgotten.
DeleteOrderDeleteMutant(r) ==
    /\ req[r].h = "deleteOrder" /\ req[r].pc = "delete"
    /\ orders' = [i \in DOMAIN orders \ {req[r].a} |-> orders[i]]
    /\ Set(r, Respond([req[r] EXCEPT !.writes = @ + 1], 200, "Order deleted successfully", <<>>))
    /\ UNCHANGED <<products, reviews, nextId, cache, scenario>>

\* deleteOrder: await order.deleteOne().
DeleteOrderDelete(r) ==
    /\ req[r].h = "deleteOrder" /\ req[r].pc = "delete"
    /\ orders' = [i \in DOMAIN orders \ {req[r].a} |-> orders[i]]
    /\ Set(r, [req[r] EXCEPT !.pc = "inv", !.writes = @ + 1])
    /\ UNCHANGED <<products, reviews, nextId, cache, scenario>>

\* deleteOrder: await invalidateCache({order, admin, userId, orderId}).
DeleteOrderInvalidate(r) ==
    /\ req[r].h = "deleteOrder" /\ req[r].pc = "inv"
    /\ Invalidate(r, [NoTags EXCEPT !.order = TRUE, !.admin = TRUE,
                                    !.userId = <<req[r].doc[1].user>>,
                                    !.orderId = <<req[r].doc[1]._id>>],
                  200, "Order deleted successfully")
    /\ UNCHANGED <<products, orders, reviews, nextId, scenario>>

\* ------------------------------------------------ product.js: reads

ProductFields ==
    <<"_id", "name", "price", "stock", "category", "description", "ratings",
      "numOfReviews">>
ProductJSON(p) ==
    Pairs(ProductFields,
          [_id |-> ToString(p._id), name |-> p.name, price |-> p.price,
           stock |-> p.stock, category |-> p.category, description |-> p.description,
           ratings |-> p.ratings, numOfReviews |-> p.numOfReviews])

\* The first n elements of a sequence.
Take(s, n) == SubSeq(s, 1, IF Len(s) < n THEN Len(s) ELSE n)

\* limit(5) of getlatestProducts.
LatestLimit == 5

\* Product.find({}).sort({ createdAt: -1 }).limit(5): ids are handed out in
\* creation order.
ProductsLatest(ps) ==
    LET ids == Take(Reverse(Ascending(DOMAIN ps)), LatestLimit)
    IN [k \in DOMAIN ids |-> ProductJSON(ps[ids[k]])]

\* Product.find({}).
ProductsAll(ps) ==
    LET ids == Ascending(DOMAIN ps)
    IN [k \in DOMAIN ids |-> ProductJSON(ps[ids[k]])]

\* Product.distinct("category"): each category once, in the order met.
RECURSIVE Distinct(_)
Distinct(s) ==
    IF s = <<>> THEN <<>>
    ELSE LET front == Distinct(SubSeq(s, 1, Len(s) - 1))
             last == s[Len(s)]
         IN IF \E i \in DOMAIN front : front[i] = last THEN front
            ELSE Append(front, last)
Categories(ps) ==
    LET ids == Ascending(DOMAIN ps)
    IN Distinct([k \in DOMAIN ids |-> ps[ids[k]].category])

\* getlatestProducts: redis.get("latest-products").
GetLatestProductsGet(r) ==
    /\ Free(r)
    /\ LET rec == [Idle EXCEPT !.h = "getlatestProducts"]
       IN IF RedisHit(KeyLatest)
          THEN Begin(r, Respond([rec EXCEPT !.hit = TRUE], 200, "",
                                StringifyArr(ParseArr(RedisGet(KeyLatest)))))
          ELSE Begin(r, [rec EXCEPT !.pc = "find"])
    /\ UNCHANGED <<products, orders, reviews, nextId, cache, scenario>>

GetLatestProductsFind(r) ==
    /\ req[r].h = "getlatestProducts" /\ req[r].pc = "find"
    /\ Set(r, [req[r] EXCEPT !.pc = "setex", !.out = ProductsLatest(products)])
    /\ UNCHANGED <<products, orders, reviews, nextId, cache, scenario>>

\* getlatestProducts writing its list under the key of getAdminProducts.
GetLatestProductsSetexMutant(r) ==
    /\ req[r].h = "getlatestProducts" /\ req[r].pc = "setex"
    /\ cache' = RedisSetex(KeyAllProducts, RedisTTL, req[r].out)
    /\ Set(r, Respond(req[r], 200, "", req[r].out))
    /\ UNCHANGED <<products, orders, reviews, nextId, scenario>>

GetLatestProductsSetex(r) ==
    /\ req[r].h = "getlatestProducts" /\ req[r].pc = "setex"
    /\ cache' = RedisSetex(KeyLatest, RedisTTL, req[r].out)
    /\ Set(r, Respond(req[r], 200, "", req[r].out))
    /\ UNCHANGED <<products, orders, reviews, nextId, scenario>>

\* getAllCategories: redis.get("categories"); the text is an array of strings.
GetAllCategoriesGet(r) ==
    /\ Free(r)
    /\ LET rec == [Idle EXCEPT !.h = "getAllCategories"]
       IN IF RedisHit(KeyCategories)
          THEN Begin(r, Respond([rec EXCEPT !.hit = TRUE], 200, "",
                                RedisGet(KeyCategories)))
          ELSE Begin(r, [rec EXCEPT !.pc = "find"])
    /\ UNCHANGED <<products, orders, reviews, nextId, cache, scenario>>

GetAllCategoriesFind(r) ==
    /\ req[r].h = "getAllCategories" /\ req[r].pc = "find"
    /\ Set(r, [req[r] EXCEPT !.pc = "setex", !.out = Categories(products)])
    /\ UNCHANGED <<products, orders, reviews, nextId, cache, scenario>>

GetAllCategoriesSetex(r) ==
    /\ req[r].h = "getAllCategories" /\ req[r].pc = "setex"
    /\ cache' = RedisSetex(KeyCategories, RedisTTL, req[r].out)
    /\ Set(r, Respond(req[r], 200, "", req[r].out))
    /\ UNCHANGED <<products, orders, reviews, nextId, scenario>>

\* getAdminProducts: redis.get("all-products").
GetAdminProductsGet(r) ==
    /\ Free(r)
    /\ LET rec == [Idle EXCEPT !.h = "getAdminProducts"]
       IN IF RedisHit(KeyAllProducts)
          THEN Begin(r, Respond([rec EXCEPT !.hit = TRUE], 200, "",
                                StringifyArr(ParseArr(RedisGet(KeyAllProducts)))))
          ELSE Begin(r, [rec EXCEPT !.pc = "find"])
    /\ UNCHANGED <<products, orders, reviews, nextId, cache, scenario>>

GetAdminProductsFind(r) ==
    /\ req[r].h = "getAdminProducts" /\ req[r].pc = "find"
    /\ Set(r, [req[r] EXCEPT !.pc = "setex", !.out = ProductsAll(products)])
    /\ UNCHANGED <<products, orders, reviews, nextId, cache, scenario>>

GetAdminProductsSetex(r) ==
    /\ req[r].h = "getAdminProducts" /\ req[r].pc = "setex"
    /\ cache' = RedisSetex(KeyAllProducts, RedisTTL, req[r].out)
    /\ Set(r, Respond(req[r], 200, "", req[r].out))
    /\ UNCHANGED <<products, orders, reviews, nextId, scenario>>

\* getSingleProduct: redis.get(`product-${id}`).
GetSingleProductGet(r, id) ==
    /\ Free(r)
    /\ LET rec == [Idle EXCEPT !.h = "getSingleProduct", !.a = id]
       IN IF RedisHit(KeyProduct(id))
          THEN Begin(r, Respond([rec EXCEPT !.hit = TRUE], 200, "",
                                StringifyObj(ParseObj(RedisGet(KeyProduct(id))))))
          ELSE Begin(r, [rec EXCEPT !.pc = "find"])
    /\ UNCHANGED <<products, orders, reviews, nextId, cache, scenario>>

\* getSingleProduct caching the null it found before it answers 404.
GetSingleProductFindMutant(r) ==
    /\ req[r].h = "getSingleProduct" /\ req[r].pc = "find"
    /\ IF req[r].a \in DOMAIN products
       THEN /\ Set(r, [req[r] EXCEPT !.pc = "setex", !.out = ProductJSON(products[req[r].a])])
            /\ UNCHANGED cache
       ELSE /\ Set(r, Respond(req[r], 404, "Product Not Found", <<>>))
            /\ cache' = RedisSetex(KeyProduct(req[r].a), RedisTTL, <<>>)
    /\ UNCHANGED <<products, orders, reviews, nextId, scenario>>

\* getSingleProduct, miss: Product.findById(id); null is a 404 and caches nothing.
GetSingleProductFind(r) ==
    /\ req[r].h = "getSingleProduct" /\ req[r].pc = "find"
    /\ IF req[r].a \in DOMAIN products
       THEN Set(r, [req[r] EXCEPT !.pc = "setex", !.out = ProductJSON(products[req[r].a])])
       ELSE Set(r, Respond(req[r], 404, "Product Not Found", <<>>))
    /\ UNCHANGED <<products, orders, reviews, nextId, cache, scenario>>

GetSingleProductSetex(r) ==
    /\ req[r].h = "getSingleProduct" /\ req[r].pc = "setex"
    /\ cache' = RedisSetex(KeyProduct(req[r].a), RedisTTL, req[r].out)
    /\ Set(r, Respond(req[r], 200, "", req[r].out))
    /\ UNCHANGED <<products, orders, reviews, nextId, scenario>>

\* ---------------------------------------- product.js: getAllProducts

\* The query of getAllProducts.  search is a string as its characters (<<>>:
\* not sent), sort and category are "" when not sent, price and page are
\* Undefined when not sent.
NoQuery ==
    [search |-> <<>>, sort |-> "", category |-> "", price |-> Undefined,
     page |-> Undefined]
ProductQueries ==
    {NoQuery, [NoQuery EXCEPT !.search = <<"N">>], [NoQuery EXCEPT !.search = <<"n", "2">>],
     [NoQuery EXCEPT !.sort = "asc"], [NoQuery EXCEPT !.sort = "desc", !.category = "a"],
     [NoQuery EXCEPT !.price = 2], [NoQuery EXCEPT !.page = 2],
     [NoQuery EXCEPT !.page = 0]}

\* Number(req.query.page) || 1.
PageOf(q) == IF q.page = Undefined \/ q.page = 0 THEN 1 ELSE q.page

\* Number(process.env.PRODUCT_PER_PAGE) || 8.
ProductPerPage == 8

\* The time to live of a cached product list.
ProductsTTL == 30

\* Time passes by d units: redis drops the entries whose time to live is used
\* up, and the answered requests (age: the time since the answer) grow older.
TickUnit == 10
AgeCap == ProductsTTL
Tick(d) ==
    /\ \/ DOMAIN cache # {}
       \/ \E r \in DOMAIN req : req[r].pc = "done" /\ req[r].age < AgeCap
    /\ cache' = [k \in {x \in DOMAIN cache : cache[x].ttl > d} |->
                   [cache[k] EXCEPT !.ttl = @ - d]]
    /\ req' = [r \in DOMAIN req |->
                 IF req[r].pc = "done"
                 THEN [req[r] EXCEPT !.age = IF @ + d > AgeCap THEN AgeCap ELSE @ + d]
                 ELSE req[r]]
    /\ UNCHANGED <<products, orders, reviews, nextId, scenario>>

\* `products-${search}-${sort}-${category}-${price}-${page}`: the text of each
\* parameter in turn (a parameter not sent prints as undefined).  A text is
\* the sequence of its pieces, so that equal keys are equal strings.
Pieces(text) ==
    CASE text = "2-undefined" -> <<"2", "-", "undefined">> [] OTHER -> <<text>>
KeyProducts(q) ==
    <<"products-">>
    \o (IF q.search = <<>> THEN <<"undefined">> ELSE q.search) \o <<"-">>
    \o (IF q.sort = "" THEN <<"undefined">> ELSE Pieces(q.sort)) \o <<"-">>
    \o (IF q.category = "" THEN <<"undefined">> ELSE Pieces(q.category)) \o <<"-">>
    \o (IF q.price = Undefined THEN <<"undefined">> ELSE <<ToString(q.price)>>) \o <<"-">>
    \o <<ToString(PageOf(q))>>

\* The lower-case form of a character the model uses.
LowerChar(ch) == CASE ch = "N" -> "n" [] OTHER -> ch

\* { $regex: search, $options: "i" } on a name: the search text occurs in it,
\* whatever the case.
RegexMatches(name, search) ==
    \E k \in 0..(Len(name) - Len(search)) :
        \A i \in 1..Len(search) : LowerChar(name[k + i]) = LowerChar(search[i])

\* baseQuery of getAllProducts (lines 157-163) on one product.
MatchesQuery(p, q) ==
    /\ q.search # <<>> => RegexMatches(p.name, q.search)
    /\ q.price # Undefined => p.price <= q.price
    /\ q.category # "" => p.category = q.category

\* The ids of S by price, rising (sort "asc") or falling (any other sort); equal
\* prices keep the natural order.
RECURSIVE ByPrice(_, _, _)
ByPrice(ps, S, asc) ==
    IF S = {} THEN <<>>
    ELSE LET m == CHOOSE x \in S :
                    \A y \in S :
                        \/ IF asc THEN ps[x].price < ps[y].price
                           ELSE ps[x].price > ps[y].price
                        \/ ps[x].price = ps[y].price /\ x <= y
         IN <<m>> \o ByPrice(ps, S \ {m}, asc)

\* Product.find(baseQuery).sort(...).limit(limit).skip(skip).
ProductsPage(ps, q) ==
    LET S == {i \in DOMAIN ps : MatchesQuery(ps[i], q)}
        ids == IF q.sort = "" THEN Ascending(S) ELSE ByPrice(ps, S, q.sort = "asc")
        skip == (PageOf(q) - 1) * ProductPerPage
        page == SubSeq(ids, skip + 1,
                       IF Len(ids) < skip + ProductPerPage THEN Len(ids)
                       ELSE skip + ProductPerPage)
    IN [k \in DOMAIN page |-> ProductJSON(ps[page[k]])]

\* Math.ceil(filteredOnlyProduct.length / limit).
TotalPage(ps, q) ==
    LET n == Cardinality({i \in DOMAIN ps : MatchesQuery(ps[i], q)})
    IN (n + ProductPerPage - 1) \div ProductPerPage

\* getAllProducts: redis.get(key); a hit answers with the cached products and
\* totalPage.
GetAllProductsGet(r, q) ==
    /\ Free(r)
    /\ LET rec == [Idle EXCEPT !.h = "getAllProducts", !.body = q]
       IN IF RedisHit(KeyProducts(q))
          THEN LET data == RedisGet(KeyProducts(q))
               IN Begin(r, Respond([rec EXCEPT !.hit = TRUE], 200, "",
                                   [products |-> StringifyArr(ParseArr(data.products)),
                                    totalPage |-> data.totalPage]))
          ELSE Begin(r, [rec EXCEPT !.pc = "find", !.b = Undefined])
    /\ UNCHANGED <<products, orders, reviews, nextId, cache, scenario>>

\* getAllProducts, miss: Promise.all of the page query and the count query;
\* the store answers the two in either order.
GetAllProductsFind(r) ==
    /\ req[r].h = "getAllProducts" /\ req[r].pc = "find"
    /\ \/ /\ req[r].doc = <<>>
          /\ Set(r, [req[r] EXCEPT !.doc = <<ProductsPage(products, req[r].body)>>,
                                   !.pc = IF req[r].b = Undefined THEN "find" ELSE "setex"])
       \/ /\ req[r].b = Undefined
          /\ Set(r, [req[r] EXCEPT !.b = TotalPage(products, req[r].body),
                                   !.pc = IF req[r].doc = <<>> THEN "find" ELSE "setex"])
    /\ UNCHANGED <<products, orders, reviews, nextId, cache, scenario>>

\* getAllProducts, miss: redis.setex(key, 30, JSON.stringify({ products, totalPage })).
GetAllProductsSetex(r) ==
    /\ req[r].h = "getAllProducts" /\ req[r].pc = "setex"
    /\ LET data == [products |-> req[r].doc[1], totalPage |-> req[r].b]
       IN /\ cache' = RedisSetex(KeyProducts(req[r].body), ProductsTTL, data)
          /\ Set(r, Respond(req[r], 200, "", data))
    /\ UNCHANGED <<products, orders, reviews, nextId, scenario>>

\* -------------------------------------------- product.js: mutations

\* String.prototype.toLowerCase on the category names the model uses.
ToLowerCase(str) ==
    CASE str = "A" -> "a" [] str = "B" -> "b" [] OTHER -> str

\* The bodies of newProduct: photos is the number of files (Undefined: none sent).
ProductBody(name, category, photos) ==
    [name |-> name, price |-> 3, stock |-> 4, category |-> category,
     description |-> "d2", photos |-> photos]
NewProductBodies ==
    {ProductBody(<<"n", "2">>, "A", 1), ProductBody(<<"n", "2">>, "b", 5),
     ProductBody(<<"n", "2">>, "b", Undefined), ProductBody(<<"n", "2">>, "b", 0),
     ProductBody(<<"n", "2">>, "b", 6), ProductBody(<<>>, "b", 1),
     [ProductBody(<<"n", "2">>, "b", 1) EXCEPT !.price = 0],
     [ProductBody(<<"n", "2">>, "b", 1) EXCEPT !.stock = Undefined],
     ProductBody(<<"n", "2">>, "", 1),
     [ProductBody(<<"n", "2">>, "b", 1) EXCEPT !.description = ""]}

\* The status newProduct rejects a body with (0: it accepts it), lines 72-79.
NewProductRejects(b) ==
    IF b.photos = Undefined THEN "Please add Photo"
    ELSE IF b.photos < 1 THEN "Please add at least one Photo"
    ELSE IF b.photos > 5 THEN "You can only upload 5 Photos"
    ELSE IF \/ b.name = <<>> \/ FalsyNum(b.price) \/ FalsyNum(b.stock)
            \/ b.category = "" \/ b.description = ""
    THEN "Please enter All Fields"
    ELSE ""

\* newProduct: the checks, the upload (an image host: no state of the model),
\* then Product.create; the schema starts ratings and numOfReviews at 0.
NewProductCreate(r, b) ==
    /\ Free(r)
    /\ LET rec == [Idle EXCEPT !.h = "newProduct", !.body = b]
           id == nextId.p + 1
       IN IF NewProductRejects(b) # ""
          THEN /\ Begin(r, Respond(rec, 400, NewProductRejects(b), <<>>))
               /\ UNCHANGED <<products, nextId>>
          ELSE /\ id <= MaxProducts
               /\ products' = (id :> [_id |-> id, name |-> b.name, price |-> b.price,
                                      stock |-> b.stock,
                                      category |-> ToLowerCase(b.category),
                                      description |-> b.description,
                                      ratings |-> <<0, 1>>, numOfReviews |-> 0])
                              @@ products
               /\ nextId' = [nextId EXCEPT !.p = id]
               /\ Begin(r, [rec EXCEPT !.pc = "inv", !.a = id, !.writes = 1])
    /\ UNCHANGED <<orders, reviews, cache, scenario>>

\* newProduct: await invalidateCache({ product: true, admin: true }).
NewProductInvalidate(r) ==
    /\ req[r].h = "newProduct" /\ req[r].pc = "inv"
    /\ Invalidate(r, [NoTags EXCEPT !.product = TRUE, !.admin = TRUE],
                  201, "Product Created Successfully")
    /\ UNCHANGED <<products, orders, reviews, nextId, scenario>>

\* The bodies of updateProduct: a field left out (or empty, or 0) is not assigned.
NoUpdate ==
    [name |-> <<>>, price |-> Undefined, stock |-> Undefined, category |-> "",
     description |-> ""]
UpdateProductBodies ==
    {NoUpdate, [NoUpdate EXCEPT !.name = <<"n", "9">>],
     [NoUpdate EXCEPT !.category = "b"],
     [NoUpdate EXCEPT !.price = 1, !.stock = 0, !.description = "d9"]}

\* The assignments of updateProduct (lines 112-121) on the document it read.
UpdatedProduct(p, b) ==
    [p EXCEPT !.name = IF b.name # <<>> THEN b.name ELSE @,
              !.price = IF ~FalsyNum(b.price) THEN b.price ELSE @,
              !.stock = IF ~FalsyNum(b.stock) THEN b.stock ELSE @,
              !.category = IF b.category # "" THEN b.category ELSE @,
              !.description = IF b.description # "" THEN b.description ELSE @]

\* document.save(): the paths whose value differs from the one loaded are
\* written to the stored document; the others keep what the store holds.
SaveModified(stored, loaded, changed) ==
    [f \in DOMAIN stored |-> IF changed[f] # loaded[f] THEN changed[f] ELSE stored[f]]

\* updateProduct: Product.findById(id) and the assignments.
UpdateProductFind(r, id, b) ==
    /\ Free(r)
    /\ LET rec == [Idle EXCEPT !.h = "updateProduct", !.a = id, !.body = b]
       IN IF id \notin DOMAIN products
          THEN Begin(r, Respond(rec, 404, "Product Not Found", <<>>))
          ELSE Begin(r, [rec EXCEPT !.pc = "save", !.doc = <<products[id]>>,
                                    !.doc2 = <<UpdatedProduct(products[id], b)>>])
    /\ UNCHANGED <<products, orders, reviews, nextId, cache, scenario>>

\* updateProduct: await product.save(); it throws when the document is gone.
UpdateProductSave(r) ==
    /\ req[r].h = "updateProduct" /\ req[r].pc = "save"
    /\ IF req[r].a \notin DOMAIN products
       THEN /\ Set(r, Respond(req[r], 500, "DocumentNotFoundError", <<>>))
            /\ UNCHANGED products
       ELSE /\ products' = [products EXCEPT ![req[r].a] =
                              SaveModified(@, req[r].doc[1], req[r].doc2[1])]
            /\ Set(r, [req[r] EXCEPT !.pc = "inv", !.writes = @ + 1])
    /\ UNCHANGED <<orders, reviews, nextId, cache, scenario>>

\* updateProduct: await invalidateCache({ product, productId, admin }).
UpdateProductInvalidate(r) ==
    /\ req[r].h = "updateProduct" /\ req[r].pc = "inv"
    /\ Invalidate(r, [NoTags EXCEPT !.product = TRUE, !.admin = TRUE,
                                    !.productId = <<req[r].doc[1]._id>>],
                  200, "Product Updated Successfully")
    /\ UNCHANGED <<products, orders, reviews, nextId, scenario>>

\* deleteProduct: Product.findById(req.params.id).
DeleteProductFind(r, id) ==
    /\ Free(r)
    /\ LET rec == [Idle EXCEPT !.h = "deleteProduct", !.a = id]
       IN IF id \notin DOMAIN products
          THEN Begin(r, Respond(rec, 404, "Product Not Found", <<>>))
          ELSE Begin(r, [rec EXCEPT !.pc = "delete", !.doc = <<products[id]>>])
    /\ UNCHANGED <<products, orders, reviews, nextId, cache, scenario>>

\* deleteProduct: await product.deleteOne().
DeleteProductDelete(r) ==
    /\ req[r].h = "deleteProduct" /\ req[r].pc = "delete"
    /\ products' = [i \in DOMAIN products \ {req[r].a} |-> products[i]]
    /\ Set(r, [req[r] EXCEPT !.pc = "inv", !.writes = @ + 1])
    /\ UNCHANGED <<orders, reviews, nextId, cache, scenario>>

\* deleteProduct: await invalidateCache({ product, productId, admin }).
DeleteProductInvalidate(r) ==
    /\ req[r].h = "deleteProduct" /\ req[r].pc = "inv"
    /\ Invalidate(r, [NoTags EXCEPT !.product = TRUE, !.admin = TRUE,
                                    !.productId = <<req[r].doc[1]._id>>],
                  200, "Product Deleted Successfully")
    /\ UNCHANGED <<products, orders, reviews, nextId, scenario>>

\* --------------------------------------------- product.js: reviews

ReviewFields == <<"_id", "comment", "rating", "user", "product", "updatedAt">>

\* populate("user", "name photo").
PopulateNamePhoto(uid) ==
    IF uid \in UserIds
    THEN <<Pairs(<<"_id", "name", "photo">>,
                 [_id |-> uid, name |-> UserDoc(uid).name, photo |-> UserDoc(uid).photo])>>
    ELSE <<>>

ReviewJSON(v) ==
    Pairs(ReviewFields,
          [_id |-> ToString(v._id), comment |-> v.comment, rating |-> v.rating,
           user |-> PopulateNamePhoto(v.user), product |-> ToString(v.product),
           updatedAt |-> v.updatedAt])

\* The review ids of a set, latest update first.
RECURSIVE ByUpdatedAtDesc(_, _)
ByUpdatedAtDesc(rs, S) ==
    IF S = {} THEN <<>>
    ELSE LET m == CHOOSE x \in S :
                    \A y \in S : \/ rs[x].updatedAt > rs[y].updatedAt
                                 \/ rs[x].updatedAt = rs[y].updatedAt /\ x <= y
         IN <<m>> \o ByUpdatedAtDesc(rs, S \ {m})

\* Review.find({ product }).populate("user", "name photo").sort({ updatedAt: -1 }).
ReviewsOfProduct(rs, pid) ==
    LET ids == ByUpdatedAtDesc(rs, {i \in DOMAIN rs : rs[i].product = pid})
    IN [k \in DOMAIN ids |-> ReviewJSON(rs[ids[k]])]

\* allReviewsOfProduct: redis.get(`reviews-${req.params.id}`).
AllReviewsOfProductGet(r, id) ==
    /\ Free(r)
    /\ LET rec == [Idle EXCEPT !.h = "allReviewsOfProduct", !.a = id]
       IN IF RedisHit(KeyReviews(id))
          THEN Begin(r, Respond([rec EXCEPT !.hit = TRUE], 200, "",
                                StringifyArr(ParseArr(RedisGet(KeyReviews(id))))))
          ELSE Begin(r, [rec EXCEPT !.pc = "find"])
    /\ UNCHANGED <<products, orders, reviews, nextId, cache, scenario>>

AllReviewsOfProductFind(r) ==
    /\ req[r].h = "allReviewsOfProduct" /\ req[r].pc = "find"
    /\ Set(r, [req[r] EXCEPT !.pc = "setex", !.out = ReviewsOfProduct(reviews, req[r].a)])
    /\ UNCHANGED <<products, orders, reviews, nextId, cache, scenario>>

AllReviewsOfProductSetex(r) ==
    /\ req[r].h = "allReviewsOfProduct" /\ req[r].pc = "setex"
    /\ cache' = RedisSetex(KeyReviews(req[r].a), RedisTTL, req[r].out)
    /\ Set(r, Respond(req[r], 200, "", req[r].out))
    /\ UNCHANGED <<products, orders, reviews, nextId, scenario>>

RECURSIVE GCD(_, _)
GCD(m, n) == IF n = 0 THEN m ELSE GCD(n, m % n)

RECURSIVE SumOfRatings(_, _)
SumOfRatings(rs, S) ==
    IF S = {} THEN 0
    ELSE LET x == CHOOSE x \in S : TRUE IN rs[x].rating + SumOfRatings(rs, S \ {x})

\* findAverageRatings(productId): the number of the product's reviews and the
\* mean of their ratings, 0 when there are none.  The mean is the fraction
\* <<numerator, denominator>> in lowest terms.
FindAverageRatings(rs, pid) ==
    LET S == {i \in DOMAIN rs : rs[i].product = pid}
        n == Cardinality(S)
        total == SumOfRatings(rs, S)
    IN [numOfReviews |-> n,
        ratings |-> IF n = 0 THEN <<0, 1>>
                    ELSE <<total \div GCD(total, n), n \div GCD(total, n)>>]

\* The bodies of newReview.
ReviewBodies == {[comment |-> "c2", rating |-> 5], [comment |-> "c3", rating |-> 4]}

\* newReview requests that may still call Review.create.
PendingCreates ==
    Cardinality({s \in Slots : req[s].h = "newReview" /\ req[s].pc \in {"findOne", "write"}})

\* newReview: User.findById(req.query.id), then Product.findById(req.params.id).
NewReviewStart(r, q, pid, b) ==
    /\ Free(r)
    /\ nextId.r + PendingCreates < MaxReviews
    /\ LET rec == [Idle EXCEPT !.h = "newReview", !.q = q, !.a = pid, !.body = b]
       IN IF UserFindById(q) = <<>>
          THEN Begin(r, Respond(rec, 404, "Not Logged In", <<>>))
          ELSE IF pid \notin DOMAIN products
          THEN Begin(r, Respond(rec, 404, "Product Not Found", <<>>))
          ELSE Begin(r, [rec EXCEPT !.pc = "findOne", !.doc = <<products[pid]>>])
    /\ UNCHANGED <<products, orders, reviews, nextId, cache, scenario>>

\* The lookup that never finds the user's review.
ReviewFindOneMutant(rs, uid, pid) == <<>>

\* Review.findOne({ user, product }): the first match, or null.
ReviewFindOne(rs, uid, pid) ==
    LET S == {i \in DOMAIN rs : rs[i].user = uid /\ rs[i].product = pid}
    IN IF S = {} THEN <<>> ELSE <<rs[CHOOSE x \in S : \A y \in S : x <= y]>>

\* newReview: const alreadyReviewed = await Review.findOne(...).
NewReviewFindOne(r) ==
    /\ req[r].h = "newReview" /\ req[r].pc = "findOne"
    /\ LET got == ReviewFindOne(reviews, req[r].q, req[r].a)
       IN Set(r, [req[r] EXCEPT !.pc = "write", !.doc2 = got, !.found = got # <<>>])
    /\ UNCHANGED <<products, orders, reviews, nextId, cache, scenario>>

\* newReview: alreadyReviewed.save() with the new comment and rating (it throws
\* when the review is gone), or Review.create.
NewReviewWrite(r) ==
    /\ req[r].h = "newReview" /\ req[r].pc = "write"
    /\ LET b == req[r].body
       IN IF req[r].found
          THEN LET old == req[r].doc2[1]
                   id == old._id
                   changed == [old EXCEPT !.comment = b.comment, !.rating = b.rating]
               IN IF id \notin DOMAIN reviews
                  THEN /\ Set(r, Respond(req[r], 500, "DocumentNotFoundError", <<>>))
                       /\ UNCHANGED <<reviews, nextId>>
                  ELSE IF changed = old
                  THEN /\ Set(r, [req[r] EXCEPT !.pc = "avg", !.writes = @ + 1])
                       /\ UNCHANGED <<reviews, nextId>>
                  ELSE /\ reviews' = [reviews EXCEPT ![id] =
                                        [SaveModified(@, old, changed)
                                           EXCEPT !.updatedAt = nextId.t + 1]]
                       /\ nextId' = [nextId EXCEPT !.t = @ + 1]
                       /\ Set(r, [req[r] EXCEPT !.pc = "avg", !.writes = @ + 1])
          ELSE LET id == nextId.r + 1
               IN /\ reviews' = (id :> [_id |-> id, comment |-> b.comment,
                                        rating |-> b.rating, user |-> req[r].q,
                                        product |-> req[r].a, updatedAt |-> nextId.t + 1])
                                @@ reviews
                  /\ nextId' = [nextId EXCEPT !.r = id, !.t = @ + 1]
                  /\ Set(r, [req[r] EXCEPT !.pc = "avg", !.b = id, !.writes = @ + 1])
    /\ UNCHANGED <<products, orders, cache, scenario>>

\* await findAverageRatings(product._id), in newReview and deleteReview.
ReviewAverage(r) ==
    /\ req[r].pc = "avg"
    /\ Set(r, [req[r] EXCEPT !.pc = "psave",
                             !.avg = <<FindAverageRatings(reviews, req[r].doc[1]._id)>>])
    /\ UNCHANGED <<products, orders, reviews, nextId, cache, scenario>>

\* product.ratings = ratings; product.numOfReviews = numOfReviews; await
\* product.save(), in newReview and deleteReview.
ReviewProductSave(r) ==
    /\ req[r].pc = "psave"
    /\ LET loaded == req[r].doc[1]
           changed == [loaded EXCEPT !.ratings = req[r].avg[1].ratings,
                                     !.numOfReviews = req[r].avg[1].numOfReviews]
       IN IF loaded._id \notin DOMAIN products
          THEN /\ Set(r, Respond(req[r], 500, "DocumentNotFoundError", <<>>))
               /\ UNCHANGED products
          ELSE /\ products' = [products EXCEPT ![loaded._id] = SaveModified(@, loaded, changed)]
               /\ Set(r, [req[r] EXCEPT !.pc = "inv", !.writes = @ + 1])
    /\ UNCHANGED <<orders, reviews, nextId, cache, scenario>>

\* invalidateCache({ product, productId: String(product._id), admin, review }).
ReviewTags(r) ==
    [NoTags EXCEPT !.product = TRUE, !.admin = TRUE, !.review = TRUE,
                   !.productId = <<req[r].doc[1]._id>>]

NewReviewAverage(r) == req[r].h = "newReview" /\ ReviewAverage(r)
NewReviewProductSave(r) == req[r].h = "newReview" /\ ReviewProductSave(r)

\* newReview: the invalidation and the response, 200 for an update and 201
\* for a new review.
NewReviewInvalidate(r) ==
    /\ req[r].h = "newReview" /\ req[r].pc = "inv"
    /\ IF req[r].found
       THEN Invalidate(r, ReviewTags(r), 200, "Review Updated")
       ELSE Invalidate(r, ReviewTags(r), 201, "Review Added")
    /\ UNCHANGED <<products, orders, reviews, nextId, scenario>>

\* deleteReview: Product.findById(productId).
DeleteReviewStart(r, pid, rid) ==
    /\ Free(r)
    /\ LET rec == [Idle EXCEPT !.h = "deleteReview", !.a = pid, !.b = rid]
       IN IF pid \notin DOMAIN products
          THEN Begin(r, Respond(rec, 404, "Product Not Found", <<>>))
          ELSE Begin(r, [rec EXCEPT !.pc = "findReview", !.doc = <<products[pid]>>])
    /\ UNCHANGED <<products, orders, reviews, nextId, cache, scenario>>

\* deleteReview: Review.findById(reviewId).
DeleteReviewFind(r) ==
    /\ req[r].h = "deleteReview" /\ req[r].pc = "findReview"
    /\ IF req[r].b \notin DOMAIN reviews
       THEN Set(r, Respond(req[r], 404, "Review Not Found", <<>>))
       ELSE Set(r, [req[r] EXCEPT !.pc = "delete", !.doc2 = <<reviews[req[r].b]>>])
    /\ UNCHANGED <<products, orders, reviews, nextId, cache, scenario>>

\* deleteReview: await review.deleteOne().
DeleteReviewDelete(r) ==
    /\ req[r].h = "deleteReview" /\ req[r].pc = "delete"
    /\ reviews' = [i \in DOMAIN reviews \ {req[r].b} |-> reviews[i]]
    /\ Set(r, [req[r] EXCEPT !.pc = "avg", !.writes = @ + 1])
    /\ UNCHANGED <<products, orders, nextId, cache, scenario>>

DeleteReviewAverage(r) == req[r].h = "deleteReview" /\ ReviewAverage(r)
DeleteReviewProductSave(r) == req[r].h = "deleteReview" /\ ReviewProductSave(r)

DeleteReviewInvalidate(r) ==
    /\ req[r].h = "deleteReview" /\ req[r].pc = "inv"
    /\ Invalidate(r, ReviewTags(r), 200, "Review Deleted")
    /\ UNCHANGED <<products, orders, reviews, nextId, scenario>>

\* ---------------------------------------------- middleware: adminOnly

\* adminOnly: a missing id is rejected before any lookup.
AdminOnlyStart(r, id) ==
    /\ Free(r)
    /\ LET rec == [Idle EXCEPT !.h = "adminOnly", !.q = id]
       IN IF id = ""
          THEN Begin(r, Respond(rec, 401, "Please log in first", <<>>))
          ELSE Begin(r, [rec EXCEPT !.pc = "find"])
    /\ UNCHANGED <<products, orders, reviews, nextId, cache, scenario>>

\* adminOnly without its role check.
AdminOnlyVerdictMutant(user) ==
    IF user = <<>> THEN 401 ELSE 0

\* The outcome of adminOnly once User.findById has answered: the status it
\* rejects with, or 0 when it calls next().
AdminOnlyVerdict(user) ==
    IF user = <<>> THEN 401
    ELSE IF user[1].role # "admin" THEN 403
    ELSE 0

\* adminOnly: await User.findById(id), then reject or call next().
AdminOnlyFind(r) ==
    /\ req[r].h = "adminOnly" /\ req[r].pc = "find"
    /\ LET user == UserFindById(req[r].q)
           v == AdminOnlyVerdict(user)
       IN IF v = 401 THEN Set(r, Respond(req[r], 401, "Invalid ID provided", <<>>))
          ELSE IF v = 403
          THEN Set(r, Respond(req[r], 403, "You do not have admin privileges", <<>>))
          ELSE Set(r, [req[r] EXCEPT !.pc = "next", !.doc = user])
    /\ UNCHANGED <<products, orders, reviews, nextId, cache, scenario>>

\* next() was called without an error: the route's admin handler runs.
AdminHandlerRun(r) ==
    /\ req[r].h = "adminOnly" /\ req[r].pc = "next"
    /\ Set(r, Respond([req[r] EXCEPT !.ran = TRUE], 200, "", <<>>))
    /\ UNCHANGED <<products, orders, reviews, nextId, cache, scenario>>

\* ------------------------------------------------- the initial store

EmptyCache == [k \in {} |-> <<>>]

\* Two products, one of them with one review (by u2, rating 3), and one order of u1.
InitStore ==
    /\ products = (1 :> [_id |-> 1, name |-> <<"n", "1">>, price |-> 2, stock |-> 5,
                         category |-> "a", description |-> "d1",
                         ratings |-> <<3, 1>>, numOfReviews |-> 1])
                  @@ (2 :> [_id |-> 2, name |-> <<"n", "2">>, price |-> 1, stock |-> 5,
                            category |-> "b", description |-> "d2",
                            ratings |-> <<0, 1>>, numOfReviews |-> 0])
    /\ reviews = (1 :> [_id |-> 1, comment |-> "c1", rating |-> 3, user |-> "u2",
                        product |-> 1, updatedAt |-> 1])
    /\ orders = (1 :> [_id |-> 1, user |-> "u1", status |-> scenario.status0,
                       orderItems |-> <<>>])
    /\ nextId = [p |-> 2, o |-> 1, r |-> 1, t |-> 1]
    /\ cache = EmptyCache
    /\ req = [r \in Slots |-> Idle]

\* --------------------------------------------------- specifications

\* Requests each specification lets start.
OrderReq == 3
AuthReq == 4

OrderIdParams == 0..MaxOrders

OrderStep(r) ==
    \/ \E uid \in QueryIds : MyOrdersGet(r, uid)
    \/ MyOrdersFind(r)
    \/ MyOrdersSetex(r)
    \/ AllOrdersGet(r)
    \/ AllOrdersFind(r)
    \/ AllOrdersSetex(r)
    \/ \E id \in OrderIdParams : GetSingleOrderGet(r, id)
    \/ GetSingleOrderFind(r)
    \/ GetSingleOrderSetex(r)
    \/ \E b \in NewOrderBodies : NewOrderCreate(r, b)
    \/ NewOrderReduceStock(r)
    \/ NewOrderInvalidate(r)
    \/ \E id \in OrderIdParams : ProcessOrderFind(r, id)
    \/ ProcessOrderSave(r)
    \/ ProcessOrderInvalidate(r)
    \/ \E id \in OrderIdParams : DeleteOrderFind(r, id)
    \/ DeleteOrderDelete(r)
    \/ DeleteOrderInvalidate(r)

Scenarios(seq, n) == {[seq |-> seq, n |-> n, status0 |-> st] : st \in Statuses}

\* Every order handler, one request at a time.
InitOrderSeq == scenario \in Scenarios(TRUE, OrderReq) /\ InitStore
NextOrder == \E r \in Slots : OrderStep(r)
SpecOrderSeq == InitOrderSeq /\ [][NextOrder]_vars

\* The order mutations, one request at a time.
InitProcessSeq == scenario \in Scenarios(TRUE, OrderReq) /\ InitStore
NextProcessSeq ==
    \E r \in Slots :
        \/ \E b \in {CompleteBody("u2", <<>>)} : NewOrderCreate(r, b)
        \/ NewOrderReduceStock(r)
        \/ NewOrderInvalidate(r)
        \/ \E id \in OrderIdParams : ProcessOrderFind(r, id)
        \/ ProcessOrderSave(r)
        \/ ProcessOrderInvalidate(r)
        \/ \E id \in OrderIdParams : DeleteOrderFind(r, id)
        \/ DeleteOrderDelete(r)
        \/ DeleteOrderInvalidate(r)
SpecProcessSeq == InitProcessSeq /\ [][NextProcessSeq]_vars

\* Concurrent processOrder requests.
InitProcess == scenario \in Scenarios(FALSE, OrderReq) /\ InitStore
NextProcess ==
    \E r \in Slots :
        \/ \E id \in OrderIdParams : ProcessOrderFind(r, id)
        \/ ProcessOrderSave(r)
        \/ ProcessOrderInvalidate(r)
SpecProcess == InitProcess /\ [][NextProcess]_vars

\* Concurrent requests through adminOnly.
InitAuth == scenario \in Scenarios(FALSE, AuthReq) /\ InitStore
NextAuth ==
    \E r \in Slots :
        \/ \E id \in QueryIds : AdminOnlyStart(r, id)
        \/ AdminOnlyFind(r)
        \/ AdminHandlerRun(r)
SpecAuth == InitAuth /\ [][NextAuth]_vars

ProductIdParams == 1..MaxProducts

\* The product handlers of C4, requests running concurrently.
ProductReq == 3
InitProduct == scenario \in {[seq |-> FALSE, n |-> ProductReq, status0 |-> "Processing"]}
               /\ InitStore
NextProduct ==
    \E r \in Slots :
        \/ GetLatestProductsGet(r)
        \/ GetLatestProductsFind(r)
        \/ GetLatestProductsSetex(r)
        \/ GetAllCategoriesGet(r)
        \/ GetAllCategoriesFind(r)
        \/ GetAllCategoriesSetex(r)
        \/ GetAdminProductsGet(r)
        \/ GetAdminProductsFind(r)
        \/ GetAdminProductsSetex(r)
        \/ \E id \in ProductIdParams : GetSingleProductGet(r, id)
        \/ GetSingleProductFind(r)
        \/ GetSingleProductSetex(r)
        \/ \E b \in {ProductBody(<<"n", "2">>, "B", 1), ProductBody(<<"n", "2">>, "b", 0)} :
             NewProductCreate(r, b)
        \/ NewProductInvalidate(r)
        \/ \E id \in ProductIdParams, b \in {NoUpdate, [NoUpdate EXCEPT !.category = "b"]} :
             UpdateProductFind(r, id, b)
        \/ UpdateProductSave(r)
        \/ UpdateProductInvalidate(r)
        \/ \E id \in ProductIdParams : DeleteProductFind(r, id)
        \/ DeleteProductDelete(r)
        \/ DeleteProductInvalidate(r)
SpecProduct == InitProduct /\ [][NextProduct]_vars

ReviewIdParams == 1..MaxReviews

ReviewStep(r) ==
    \/ \E q \in {"u1", "u2", "u9"}, pid \in ProductIdParams, b \in ReviewBodies :
         NewReviewStart(r, q, pid, b)
    \/ NewReviewFindOne(r)
    \/ NewReviewWrite(r)
    \/ NewReviewAverage(r)
    \/ NewReviewProductSave(r)
    \/ NewReviewInvalidate(r)
    \/ \E pid \in ProductIdParams, rid \in ReviewIdParams : DeleteReviewStart(r, pid, rid)
    \/ DeleteReviewFind(r)
    \/ DeleteReviewDelete(r)
    \/ DeleteReviewAverage(r)
    \/ DeleteReviewProductSave(r)
    \/ DeleteReviewInvalidate(r)

\* newReview and deleteReview, one request at a time.
ReviewReq == 2
InitReviewSeq == scenario \in {[seq |-> TRUE, n |-> ReviewReq, status0 |-> "Processing"]}
                 /\ InitStore
NextReviewSeq == \E r \in Slots : ReviewStep(r)
SpecReviewSeq == InitReviewSeq /\ [][NextReviewSeq]_vars

\* Concurrent newReview requests.
InitReview == scenario \in {[seq |-> FALSE, n |-> ReviewReq, status0 |-> "Processing"]}
              /\ InitStore
NextReview ==
    \E r \in Slots :
        \/ \E q \in {"u1", "u2", "u9"}, pid \in ProductIdParams, b \in ReviewBodies :
             NewReviewStart(r, q, pid, b)
        \/ NewReviewFindOne(r)
        \/ NewReviewWrite(r)
        \/ NewReviewAverage(r)
        \/ NewReviewProductSave(r)
        \/ NewReviewInvalidate(r)
SpecReview == InitReview /\ [][NextReview]_vars

\* newReview, deleteReview and allReviewsOfProduct, one request at a time.
InitReviewRead == scenario \in {[seq |-> TRUE, n |-> ReviewReq, status0 |-> "Processing"]}
                  /\ InitStore
NextReviewRead ==
    \E r \in Slots :
        \/ ReviewStep(r)
        \/ \E id \in ProductIdParams : AllReviewsOfProductGet(r, id)
        \/ AllReviewsOfProductFind(r)
        \/ AllReviewsOfProductSetex(r)
SpecReviewRead == InitReviewRead /\ [][NextReviewRead]_vars

\* The order reads and the order mutations, one request at a time.
InitOrderFresh == scenario \in {[seq |-> TRUE, n |-> OrderReq, status0 |-> "Processing"]}
                  /\ InitStore
NextOrderFresh ==
    \E r \in Slots :
        \/ \E uid \in UserIds : MyOrdersGet(r, uid)
        \/ MyOrdersFind(r)
        \/ MyOrdersSetex(r)
        \/ AllOrdersGet(r)
        \/ AllOrdersFind(r)
        \/ AllOrdersSetex(r)
        \/ \E id \in OrderIdParams \ {0} : GetSingleOrderGet(r, id)
        \/ GetSingleOrderFind(r)
        \/ GetSingleOrderSetex(r)
        \/ \E b \in {CompleteBody("u1", <<[productId |-> 1, quantity |-> 1]>>),
                     CompleteBody("u2", <<>>)} : NewOrderCreate(r, b)
        \/ NewOrderReduceStock(r)
        \/ NewOrderInvalidate(r)
        \/ \E id \in OrderIdParams \ {0} : ProcessOrderFind(r, id)
        \/ ProcessOrderSave(r)
        \/ ProcessOrderInvalidate(r)
        \/ \E id \in OrderIdParams \ {0} : DeleteOrderFind(r, id)
        \/ DeleteOrderDelete(r)
        \/ DeleteOrderInvalidate(r)
SpecOrderFresh == InitOrderFresh /\ [][NextOrderFresh]_vars

\* The order reads and the order mutations on order 1, requests running
\* concurrently.
InitOrderRace == scenario \in {[seq |-> FALSE, n |-> OrderReq, status0 |-> "Processing"]}
                 /\ InitStore
NextOrderRace ==
    \E r \in Slots :
        \/ \E uid \in {"u1"} : MyOrdersGet(r, uid)
        \/ MyOrdersFind(r)
        \/ MyOrdersSetex(r)
        \/ AllOrdersGet(r)
        \/ AllOrdersFind(r)
        \/ AllOrdersSetex(r)
        \/ \E id \in {1} : GetSingleOrderGet(r, id)
        \/ GetSingleOrderFind(r)
        \/ GetSingleOrderSetex(r)
        \/ \E b \in {CompleteBody("u1", <<>>)} : NewOrderCreate(r, b)
        \/ NewOrderReduceStock(r)
        \/ NewOrderInvalidate(r)
        \/ \E id \in {1} : ProcessOrderFind(r, id)
        \/ ProcessOrderSave(r)
        \/ ProcessOrderInvalidate(r)
        \/ \E id \in {1} : DeleteOrderFind(r, id)
        \/ DeleteOrderDelete(r)
        \/ DeleteOrderInvalidate(r)
SpecOrderRace == InitOrderRace /\ [][NextOrderRace]_vars

\* allReviewsOfProduct, newReview and deleteReview, one request at a time,
\* three requests long.
ReviewReadReq == 3
InitReviewFresh ==
    scenario \in {[seq |-> TRUE, n |-> ReviewReadReq, status0 |-> "Processing"]}
    /\ InitStore
NextReviewFresh ==
    \E r \in Slots :
        \/ \E id \in {1, 2} : AllReviewsOfProductGet(r, id)
        \/ AllReviewsOfProductFind(r)
        \/ AllReviewsOfProductSetex(r)
        \/ \E q \in UserIds, pid \in {1, 2} :
             NewReviewStart(r, q, pid, [comment |-> "c2", rating |-> 5])
        \/ NewReviewFindOne(r)
        \/ NewReviewWrite(r)
        \/ NewReviewAverage(r)
        \/ NewReviewProductSave(r)
        \/ NewReviewInvalidate(r)
        \/ \E pid \in {1, 2}, rid \in {1, 2} : DeleteReviewStart(r, pid, rid)
        \/ DeleteReviewFind(r)
        \/ DeleteReviewDelete(r)
        \/ DeleteReviewAverage(r)
        \/ DeleteReviewProductSave(r)
        \/ DeleteReviewInvalidate(r)
SpecReviewFresh == InitReviewFresh /\ [][NextReviewFresh]_vars

\* getAllProducts and the product mutations running concurrently while time
\* passes.
TTLReq == 3
InitTTL == scenario \in {[seq |-> FALSE, n |-> TTLReq, status0 |-> "Processing"]}
           /\ InitStore
NextTTL ==
    \/ Tick(TickUnit)
    \/ \E r \in Slots :
        \/ \E q \in {NoQuery} : GetAllProductsGet(r, q)
        \/ GetAllProductsFind(r)
        \/ GetAllProductsSetex(r)
        \/ \E b \in {ProductBody(<<"n", "2">>, "B", 1)} : NewProductCreate(r, b)
        \/ NewProductInvalidate(r)
        \/ \E id \in {1}, b \in {[NoUpdate EXCEPT !.category = "b"]} :
             UpdateProductFind(r, id, b)
        \/ UpdateProductSave(r)
        \/ UpdateProductInvalidate(r)
        \/ \E id \in {1} : DeleteProductFind(r, id)
        \/ DeleteProductDelete(r)
        \/ DeleteProductInvalidate(r)
SpecTTL == InitTTL /\ [][NextTTL]_vars

\* newOrder with every body of NewOrderBodies, one request at a time.
InitNewOrder == scenario \in {[seq |-> TRUE, n |-> OrderReq, status0 |-> "Processing"]}
                /\ InitStore
NextNewOrder ==
    \E r \in Slots :
        \/ \E b \in NewOrderBodies : NewOrderCreate(r, b)
        \/ NewOrderReduceStock(r)
        \/ NewOrderInvalidate(r)
SpecNewOrder == InitNewOrder /\ [][NextNewOrder]_vars

\* The handlers with a 400 or 404 exit, given ids of absent documents and
\* bodies that fail the validation as well as good ones, running concurrently.
ErrReq == 2
InitErrors == scenario \in {[seq |-> FALSE, n |-> ErrReq, status0 |-> "Processing"]}
              /\ InitStore
NextErrors ==
    \E r \in Slots :
        \/ \E id \in {1, MaxProducts} : GetSingleProductGet(r, id)
        \/ GetSingleProductFind(r)
        \/ GetSingleProductSetex(r)
        \/ \E id \in OrderIdParams : GetSingleOrderGet(r, id)
        \/ GetSingleOrderFind(r)
        \/ GetSingleOrderSetex(r)
        \/ \E b \in {CompleteBody("u2", <<>>),
                     [CompleteBody("u2", <<>>) EXCEPT !.tax = Undefined]} :
             NewOrderCreate(r, b)
        \/ NewOrderReduceStock(r)
        \/ NewOrderInvalidate(r)
        \/ \E id \in OrderIdParams : ProcessOrderFind(r, id)
        \/ ProcessOrderSave(r)
        \/ ProcessOrderInvalidate(r)
        \/ \E id \in OrderIdParams : DeleteOrderFind(r, id)
        \/ DeleteOrderDelete(r)
        \/ DeleteOrderInvalidate(r)
        \/ \E id \in {1, MaxProducts}, b \in {[NoUpdate EXCEPT !.category = "b"]} :
             UpdateProductFind(r, id, b)
        \/ UpdateProductSave(r)
        \/ UpdateProductInvalidate(r)
        \/ \E id \in {1, MaxProducts} : DeleteProductFind(r, id)
        \/ DeleteProductDelete(r)
        \/ DeleteProductInvalidate(r)
        \/ \E q \in {"u1", "u9"}, pid \in {1, MaxProducts} :
             NewReviewStart(r, q, pid, [comment |-> "c2", rating |-> 5])
        \/ NewReviewFindOne(r)
        \/ NewReviewWrite(r)
        \/ NewReviewAverage(r)
        \/ NewReviewProductSave(r)
        \/ NewReviewInvalidate(r)
        \/ \E pid \in {1, MaxProducts}, rid \in {1, MaxReviews} : DeleteReviewStart(r, pid, rid)
        \/ DeleteReviewFind(r)
        \/ DeleteReviewDelete(r)
        \/ DeleteReviewAverage(r)
        \/ DeleteReviewProductSave(r)
        \/ DeleteReviewInvalidate(r)
SpecErrors == InitErrors /\ [][NextErrors]_vars

\* The nine read handlers running concurrently, with updateProduct and
\* deleteOrder beside them to change the store and empty keys.
ReadReq == 2
InitReads == scenario \in {[seq |-> FALSE, n |-> ReadReq, status0 |-> "Processing"]}
             /\ InitStore
NextReads ==
    \E r \in Slots :
        \/ \E uid \in {"u1"} : MyOrdersGet(r, uid)
        \/ MyOrdersFind(r)
        \/ MyOrdersSetex(r)
        \/ AllOrdersGet(r)
        \/ AllOrdersFind(r)
        \/ AllOrdersSetex(r)
        \/ \E id \in {1} : GetSingleOrderGet(r, id)
        \/ GetSingleOrderFind(r)
        \/ GetSingleOrderSetex(r)
        \/ GetLatestProductsGet(r)
        \/ GetLatestProductsFind(r)
        \/ GetLatestProductsSetex(r)
        \/ GetAllCategoriesGet(r)
        \/ GetAllCategoriesFind(r)
        \/ GetAllCategoriesSetex(r)
        \/ GetAdminProductsGet(r)
        \/ GetAdminProductsFind(r)
        \/ GetAdminProductsSetex(r)
        \/ \E id \in {1} : GetSingleProductGet(r, id)
        \/ GetSingleProductFind(r)
        \/ GetSingleProductSetex(r)
        \/ \E q \in {NoQuery, [NoQuery EXCEPT !.sort = "desc", !.category = "a"]} :
             GetAllProductsGet(r, q)
        \/ GetAllProductsFind(r)
        \/ GetAllProductsSetex(r)
        \/ \E id \in {1} : AllReviewsOfProductGet(r, id)
        \/ AllReviewsOfProductFind(r)
        \/ AllReviewsOfProductSetex(r)
        \/ \E id \in {1}, b \in {[NoUpdate EXCEPT !.category = "b"]} :
             UpdateProductFind(r, id, b)
        \/ UpdateProductSave(r)
        \/ UpdateProductInvalidate(r)
        \/ \E id \in {1} : DeleteOrderFind(r, id)
        \/ DeleteOrderDelete(r)
        \/ DeleteOrderInvalidate(r)
SpecReads == InitReads /\ [][NextReads]_vars

\* processOrder and deleteOrder of order 1 beside reads that fill the keys
\* of orders, products and reviews, requests running concurrently.
FrameReq == 3
InitFrame == scenario \in {[seq |-> FALSE, n |-> FrameReq, status0 |-> "Processing"]}
             /\ InitStore
NextFrame ==
    \E r \in Slots :
        \/ \E id \in {1} : GetSingleOrderGet(r, id)
        \/ GetSingleOrderFind(r)
        \/ GetSingleOrderSetex(r)
        \/ GetLatestProductsGet(r)
        \/ GetLatestProductsFind(r)
        \/ GetLatestProductsSetex(r)
        \/ \E id \in {1} : AllReviewsOfProductGet(r, id)
        \/ AllReviewsOfProductFind(r)
        \/ AllReviewsOfProductSetex(r)
        \/ \E id \in {1} : ProcessOrderFind(r, id)
        \/ ProcessOrderSave(r)
        \/ ProcessOrderInvalidate(r)
        \/ \E id \in {1} : DeleteOrderFind(r, id)
        \/ DeleteOrderDelete(r)
        \/ DeleteOrderInvalidate(r)
SpecFrame == InitFrame /\ [][NextFrame]_vars

\* Queries of getAllProducts whose texts hold the word undefined or a hyphen:
\* a search for the text undefined, the search n-2, and the search n with the
\* sort 2-undefined.
KeyQueries ==
    {NoQuery, [NoQuery EXCEPT !.search = <<"undefined">>],
     [NoQuery EXCEPT !.search = <<"n", "-", "2">>],
     [NoQuery EXCEPT !.search = <<"n">>, !.sort = "2-undefined"],
     [NoQuery EXCEPT !.sort = "asc"], [NoQuery EXCEPT !.category = "a"],
     [NoQuery EXCEPT !.price = 2], [NoQuery EXCEPT !.page = 2]}

\* getAllProducts alone, one request at a time.
KeyReq == 2
InitKeys == scenario \in {[seq |-> TRUE, n |-> KeyReq, status0 |-> "Processing"]}
            /\ InitStore
NextKeys ==
    \E r \in Slots :
        \/ \E q \in KeyQueries : GetAllProductsGet(r, q)
        \/ GetAllProductsFind(r)
        \/ GetAllProductsSetex(r)
SpecKeys == InitKeys /\ [][NextKeys]_vars

\* The eight mutation handlers, requests running concurrently.
MutationReq == 2
InitMutation == scenario \in {[seq |-> FALSE, n |-> MutationReq, status0 |-> "Processing"]}
                /\ InitStore
NextMutation ==
    \E r \in Slots :
        \/ \E b \in {ProductBody(<<"n", "2">>, "B", 1), ProductBody(<<"n", "2">>, "b", 0)} :
             NewProductCreate(r, b)
        \/ NewProductInvalidate(r)
        \/ \E id \in {1, 3} : UpdateProductFind(r, id, [NoUpdate EXCEPT !.category = "b"])
        \/ UpdateProductSave(r)
        \/ UpdateProductInvalidate(r)
        \/ \E id \in {1} : DeleteProductFind(r, id)
        \/ DeleteProductDelete(r)
        \/ DeleteProductInvalidate(r)
        \/ \E q \in {"u1", "u2"}, b \in {[comment |-> "c2", rating |-> 5]} :
             NewReviewStart(r, q, 1, b)
        \/ NewReviewFindOne(r)
        \/ NewReviewWrite(r)
        \/ NewReviewAverage(r)
        \/ NewReviewProductSave(r)
        \/ NewReviewInvalidate(r)
        \/ \E rid \in {1, 2} : DeleteReviewStart(r, 1, rid)
        \/ DeleteReviewFind(r)
        \/ DeleteReviewDelete(r)
        \/ DeleteReviewAverage(r)
        \/ DeleteReviewProductSave(r)
        \/ DeleteReviewInvalidate(r)
        \/ \E b \in {CompleteBody("u2", <<[productId |-> 1, quantity |-> 1]>>),
                     [CompleteBody("u2", <<>>) EXCEPT !.tax = 0]} :
             NewOrderCreate(r, b)
        \/ NewOrderReduceStock(r)
        \/ NewOrderInvalidate(r)
        \/ \E id \in {1, 2} : ProcessOrderFind(r, id)
        \/ ProcessOrderSave(r)
        \/ ProcessOrderInvalidate(r)
        \/ \E id \in {1} : DeleteOrderFind(r, id)
        \/ DeleteOrderDelete(r)
        \/ DeleteOrderInvalidate(r)
SpecMutation == InitMutation /\ [][NextMutation]_vars

\* Every handler, one request at a time.
AllReq == 2
Init == scenario \in {[seq |-> TRUE, n |-> AllReq, status0 |-> "Processing"]} /\ InitStore
Next ==
    \E r \in Slots :
        \/ OrderStep(r)
        \/ ReviewStep(r)
        \/ GetLatestProductsGet(r)
        \/ GetLatestProductsFind(r)
        \/ GetLatestProductsSetex(r)
        \/ GetAllCategoriesGet(r)
        \/ GetAllCategoriesFind(r)
        \/ GetAllCategoriesSetex(r)
        \/ GetAdminProductsGet(r)
        \/ GetAdminProductsFind(r)
        \/ GetAdminProductsSetex(r)
        \/ \E id \in ProductIdParams : GetSingleProductGet(r, id)
        \/ GetSingleProductFind(r)
        \/ GetSingleProductSetex(r)
        \/ \E q \in ProductQueries : GetAllProductsGet(r, q)
        \/ GetAllProductsFind(r)
        \/ GetAllProductsSetex(r)
        \/ \E id \in ProductIdParams : AllReviewsOfProductGet(r, id)
        \/ AllReviewsOfProductFind(r)
        \/ AllReviewsOfProductSetex(r)
        \/ \E b \in NewProductBodies : NewProductCreate(r, b)
        \/ NewProductInvalidate(r)
        \/ \E id \in ProductIdParams, b \in UpdateProductBodies : UpdateProductFind(r, id, b)
        \/ UpdateProductSave(r)
        \/ UpdateProductInvalidate(r)
        \/ \E id \in ProductIdParams : DeleteProductFind(r, id)
        \/ DeleteProductDelete(r)
        \/ DeleteProductInvalidate(r)
        \/ \E id \in QueryIds : AdminOnlyStart(r, id)
        \/ AdminOnlyFind(r)
        \/ AdminHandlerRun(r)
Spec == Init /\ [][Next]_vars

\* ------------------------------------------------------------- claims

\* processOrder requests on order o whose save has completed.
Processed(o) ==
    {r \in Slots : /\ req[r].h = "processOrder" /\ req[r].a = o
                   /\ req[r].writes = 1}

\* The status order o had when it entered the store.
StatusAtStart(o) == IF o = 1 THEN scenario.status0 ELSE "Processing"

\* C1: with requests handled one after another, a processOrder call turns the
\* status it read into Shipped (from Processing) or Delivered (from anything
\* else), and an order that started in Processing is Processing after no call,
\* Shipped after one and Delivered after two or more.
C1_ProcessReachesDelivered ==
    /\ \A r \in Slots :
         req[r].h = "processOrder" /\ req[r].pc = "inv" =>
           /\ req[r].a \in DOMAIN orders
           /\ orders[req[r].a].status =
                (IF req[r].doc[1].status = "Processing" THEN "Shipped" ELSE "Delivered")
    /\ \A o \in DOMAIN orders :
         StatusAtStart(o) = "Processing" =>
           orders[o].status =
             (CASE Cardinality(Processed(o)) = 0 -> "Processing"
                [] Cardinality(Processed(o)) = 1 -> "Shipped"
                [] OTHER -> "Delivered")

\* C1's case: an order that started in Processing has been processed three times.
C1_Witness ==
    \E o \in DOMAIN orders :
        /\ StatusAtStart(o) = "Processing"
        /\ Cardinality(Processed(o)) >= 3
        /\ orders[o].status = "Delivered"
        /\ Quiet

StatusRank(st) ==
    CASE st = "Processing" -> 0 [] st = "Shipped" -> 1 [] OTHER -> 2

\* C2: no step moves a stored order's status backward, whatever the interleaving
\* of the processOrder requests' find, save and invalidate steps.
C2_StatusNeverMovesBackward ==
    [][\A o \in DOMAIN orders \cap DOMAIN orders' :
         StatusRank(orders'[o].status) >= StatusRank(orders[o].status)]_vars

\* What adminOnly must answer for a query id: 401 without an id or for an id
\* of no user, 403 for a user who is no admin, and 0 (next()) for an admin.
AdminOnlyExpected(q) ==
    IF q = "" THEN 401
    ELSE IF q \notin UserIds THEN 401
    ELSE IF UserDoc(q).role # "admin" THEN 403
    ELSE 0

\* C3: adminOnly rejects a missing id and an unknown id with 401 and a
\* non-admin with 403, lets an admin through, and the admin handler runs for
\* no rejected request.
C3_AdminOnly ==
    \A r \in Slots :
        req[r].h = "adminOnly" =>
          /\ req[r].pc = "done" =>
               IF AdminOnlyExpected(req[r].q) = 0
               THEN req[r].ran /\ req[r].code = 200
               ELSE req[r].code = AdminOnlyExpected(req[r].q) /\ ~req[r].ran
          /\ req[r].pc = "next" => AdminOnlyExpected(req[r].q) = 0
          /\ req[r].ran => AdminOnlyExpected(req[r].q) = 0

\* C3's cases: the four kinds of request have all been answered.
C3_Witness ==
    /\ \E r \in Slots : req[r].h = "adminOnly" /\ req[r].q = "" /\ req[r].code = 401
    /\ \E r \in Slots : req[r].h = "adminOnly" /\ req[r].q = "u9" /\ req[r].code = 401
    /\ \E r \in Slots : req[r].h = "adminOnly" /\ req[r].q = "u2" /\ req[r].code = 403
    /\ \E r \in Slots : req[r].h = "adminOnly" /\ req[r].q = "u1" /\ req[r].ran

\* The request of slot r ran with no other request running, and none has
\* started since: the store is as it was all through it.
RanAloneLast(r) ==
    /\ req[r].pc = "done" /\ req[r].alone
    /\ \A s \in Slots : s > r => req[s].pc = "idle"

ProductMutations == {"newProduct", "updateProduct", "deleteProduct"}

\* A product mutation (of product id, when id # 0) answered with success
\* before the request of slot r started.
MutationCompletedBefore(r, id) ==
    \E s \in Slots :
        /\ s < r /\ req[s].pc = "done" /\ req[s].h \in ProductMutations
        /\ req[s].code \in {200, 201}
        /\ id # 0 => req[s].a = id

\* C4: a read of latest-products, all-products, categories or product-{id}
\* that starts after a product mutation (of that id) has completed, and runs
\* with nothing beside it, answers with the store's state, never with a
\* value cached before the mutation.
C4_ReadsAfterMutationAreFresh ==
    \A r \in Slots :
        RanAloneLast(r) =>
          /\ req[r].h = "getlatestProducts" /\ MutationCompletedBefore(r, 0)
               => req[r].out = ProductsLatest(products)
          /\ req[r].h = "getAdminProducts" /\ MutationCompletedBefore(r, 0)
               => req[r].out = ProductsAll(products)
          /\ req[r].h = "getAllCategories" /\ MutationCompletedBefore(r, 0)
               => req[r].out = Categories(products)
          /\ req[r].h = "getSingleProduct" /\ MutationCompletedBefore(r, req[r].a)
               => IF req[r].a \in DOMAIN products
                  THEN req[r].code = 200 /\ req[r].out = ProductJSON(products[req[r].a])
                  ELSE req[r].code = 404

\* What a handler answers from a cached array of objects, and a cached object.
HitArr(key) == StringifyArr(ParseArr(RedisGet(key)))
HitObj(key) == StringifyObj(ParseObj(RedisGet(key)))

\* C5: between requests, every cache key that is present holds what the miss
\* branch of its read endpoint would compute from the store at that moment.
C5_HitEqualsMiss ==
    Quiet =>
      /\ \A u \in QueryIds \ {""} :
           RedisHit(KeyMyOrders(u)) => HitArr(KeyMyOrders(u)) = OrdersOfUser(u)
      /\ RedisHit(KeyAllOrders) => HitArr(KeyAllOrders) = OrdersAll
      /\ \A id \in OrderIdParams \ {0} :
           RedisHit(KeyOrder(id)) =>
             /\ id \in DOMAIN orders
             /\ HitObj(KeyOrder(id)) = OrderJSONPopulated(orders[id])
      /\ RedisHit(KeyLatest) => HitArr(KeyLatest) = ProductsLatest(products)
      /\ RedisHit(KeyCategories) => RedisGet(KeyCategories) = Categories(products)
      /\ RedisHit(KeyAllProducts) => HitArr(KeyAllProducts) = ProductsAll(products)
      /\ \A id \in ProductIdParams :
           RedisHit(KeyProduct(id)) =>
             /\ id \in DOMAIN products
             /\ HitObj(KeyProduct(id)) = ProductJSON(products[id])
      /\ \A q \in ProductQueries :
           RedisHit(KeyProducts(q)) =>
             /\ StringifyArr(ParseArr(RedisGet(KeyProducts(q)).products))
                  = ProductsPage(products, q)
             /\ RedisGet(KeyProducts(q)).totalPage = TotalPage(products, q)
      /\ \A id \in ProductIdParams :
           RedisHit(KeyReviews(id)) => HitArr(KeyReviews(id)) = ReviewsOfProduct(reviews, id)

\* The reviews user u has written for product p.
ReviewsBy(u, p) == {i \in DOMAIN reviews : reviews[i].user = u /\ reviews[i].product = p}

\* C6: the store never holds two reviews of one user for one product,
\* whatever the interleaving of the newReview requests' steps.
C6_OneReviewPerUserAndProduct ==
    \A u \in UserIds, p \in ProductIdParams : Cardinality(ReviewsBy(u, p)) <= 1

\* C7 (the write): newReview for a user who has a review of the product
\* overwrites its comment and rating and creates nothing; for a user who has
\* none it creates exactly one review.
C7_WriteStep ==
    \A r \in Slots :
        req[r].h = "newReview" /\ req[r].pc = "write" /\ req'[r].pc = "avg" =>
          LET mine == ReviewsBy(req[r].q, req[r].a)
          IN IF mine # {}
             THEN /\ req'[r].found
                  /\ DOMAIN reviews' = DOMAIN reviews
                  /\ \A i \in mine :
                       /\ reviews'[i].comment = req[r].body.comment
                       /\ reviews'[i].rating = req[r].body.rating
                  /\ \A i \in DOMAIN reviews \ mine : reviews'[i] = reviews[i]
             ELSE /\ ~req'[r].found
                  /\ Cardinality(DOMAIN reviews' \ DOMAIN reviews) = 1
                  /\ DOMAIN reviews \subseteq DOMAIN reviews'
                  /\ \A i \in DOMAIN reviews : reviews'[i] = reviews[i]
                  /\ \A i \in DOMAIN reviews' \ DOMAIN reviews :
                       /\ reviews'[i].user = req[r].q /\ reviews'[i].product = req[r].a
                       /\ reviews'[i].comment = req[r].body.comment
                       /\ reviews'[i].rating = req[r].body.rating

\* C7 (the response): the update answers 200 "Review Updated" and leaves the
\* review count of a product with that single reviewer at 1; the creation
\* answers 201 "Review Added".
C7_Response ==
    \A r \in Slots :
        req[r].h = "newReview" /\ req[r].pc = "done" /\ req[r].code \notin {404, 500} =>
          IF req[r].found
          THEN /\ req[r].code = 200 /\ req[r].msg = "Review Updated"
               /\ (/\ \A s \in Slots : s > r => req[s].pc = "idle"
                   /\ Cardinality({i \in DOMAIN reviews : reviews[i].product = req[r].a}) = 1)
                  => products[req[r].a].numOfReviews = 1
          ELSE req[r].code = 201 /\ req[r].msg = "Review Added"

\* C7: with requests handled one after another, newReview is an upsert.
C7_ReviewUpsert == [][C7_WriteStep]_vars /\ []C7_Response

\* C7's cases: one request has updated the single review of its product and
\* another has added a review.
C7_Witness ==
    /\ \E r \in Slots :
         /\ req[r].h = "newReview" /\ req[r].found /\ req[r].code = 200
         /\ \E i \in ReviewsBy(req[r].q, req[r].a) : reviews[i].comment = req[r].body.comment
    /\ \E r \in Slots : req[r].h = "newReview" /\ ~req[r].found /\ req[r].code = 201

ReviewHandlers == {"newReview", "deleteReview"}

\* C8: when no review request is running, every product's numOfReviews is the
\* number of reviews that reference it and its ratings is their mean (0
\* without reviews).
C8_RatingsMatchReviews ==
    (\A r \in Slots : req[r].h \in ReviewHandlers => ~InFlight(r)) =>
      \A p \in DOMAIN products :
          LET S == {i \in DOMAIN reviews : reviews[i].product = p}
          IN /\ products[p].numOfReviews = Cardinality(S)
             /\ products[p].ratings[1] * Cardinality(S)
                  = SumOfRatings(reviews, S) * products[p].ratings[2]
             /\ S = {} => products[p].ratings[1] = 0

MutationHandlers ==
    {"newProduct", "updateProduct", "deleteProduct", "newReview", "deleteReview",
     "newOrder", "processOrder", "deleteOrder"}

\* The store writes each mutation handler awaits before it invalidates.
WritesOf(h) == IF h \in {"newReview", "deleteReview", "newOrder"} THEN 2 ELSE 1

\* C9: a mutation handler invalidates the cache only once all its store
\* writes are done, writes nothing after it, and has invalidated when it
\* answers with success.
C9_InvalidateAfterWrites ==
    \A r \in Slots :
        req[r].h \in MutationHandlers =>
          /\ req[r].invAt # -1 =>
               req[r].invAt = WritesOf(req[r].h) /\ req[r].writes = req[r].invAt
          /\ req[r].pc = "done" /\ req[r].code \in {200, 201} => req[r].invAt # -1
          /\ req[r].pc = "inv" => req[r].writes = WritesOf(req[r].h)

\* C9's case: a handler with two store writes and one with a single write
\* have both answered with success.
C9_Witness ==
    /\ \E r \in Slots : req[r].h \in {"newReview", "deleteReview", "newOrder"}
                        /\ req[r].code \in {200, 201} /\ req[r].invAt = 2
    /\ \E r \in Slots : req[r].h \in {"updateProduct", "deleteProduct", "processOrder",
                                      "deleteOrder", "newProduct"}
                        /\ req[r].code \in {200, 201} /\ req[r].invAt = 1

\* C10: the answered requests follow the taxonomy: 400 for a missing or
\* invalid field, 401 without a known user id, 403 for a user who is no
\* admin, 404 for an id of no product, order or review.
C10_ErrorTaxonomy ==
    \A r \in Slots :
        req[r].pc = "done" =>
          /\ req[r].h = "myOrders" /\ req[r].q = "" => req[r].code = 400
          /\ req[r].h \in {"getSingleOrder", "processOrder", "deleteOrder"} /\ req[r].a = 0
               => req[r].code = 400
          /\ req[r].h = "newOrder" /\ NewOrderInvalid(req[r].body) => req[r].code = 400
          /\ req[r].h = "newProduct" /\ NewProductRejects(req[r].body) # ""
               => req[r].code = 400
          /\ req[r].h = "adminOnly" /\ AdminOnlyExpected(req[r].q) # 0
               => req[r].code = AdminOnlyExpected(req[r].q)
          /\ req[r].h = "newReview" /\ req[r].q \notin UserIds => req[r].code = 401
          /\ req[r].h \in {"getSingleOrder", "processOrder", "deleteOrder"}
             /\ req[r].a > nextId.o
               => req[r].code = 404
          /\ req[r].h \in {"getSingleProduct", "updateProduct", "deleteProduct", "deleteReview"}
             /\ req[r].a > nextId.p
               => req[r].code = 404
          /\ req[r].h = "newReview" /\ req[r].q \in UserIds /\ req[r].a > nextId.p
               => req[r].code = 404
          /\ req[r].h = "deleteReview" /\ req[r].a \in DOMAIN products /\ req[r].b > nextId.r
               => req[r].code = 404

\* The parameters of a getAllProducts request as the handler holds them:
\* search, sort, category, price and page = Number(req.query.page) || 1.
QueryTuple(q) == <<q.search, q.sort, q.category, q.price, PageOf(q)>>

\* C11: two getAllProducts requests whose (search, sort, category, price,
\* page) differ are given different cache keys, and two with the same
\* parameters the same key.
C11_KeyInjective ==
    \A r \in Slots, s \in Slots :
        req[r].h = "getAllProducts" /\ req[s].h = "getAllProducts" =>
          (QueryTuple(req[r].body) = QueryTuple(req[s].body))
            <=> (KeyProducts(req[r].body) = KeyProducts(req[s].body))

OrderMutations == {"newOrder", "processOrder", "deleteOrder"}

\* The user of the order a completed order mutation created, processed or deleted.
MutatedOrderUser(s) ==
    IF req[s].h = "newOrder" THEN req[s].body.user ELSE req[s].doc[1].user

\* An order mutation of one of the kinds answered with success before the
\* request of slot r started.
OrderMutationBefore(r, kinds, Touches(_)) ==
    \E s \in Slots :
        /\ s < r /\ req[s].pc = "done" /\ req[s].h \in kinds
        /\ req[s].code \in {200, 201}
        /\ Touches(s)

\* C12: a read of all-orders, of my-orders-{user} for the user of the mutated
\* order, or of order-{id} for the processed or deleted order, that starts
\* after the order mutation has answered with success and runs with nothing
\* beside it, answers with the store as it is: the processed order with its
\* new status, 404 for the deleted order.
C12_OrderReadsAfterMutation ==
    \A r \in Slots :
        RanAloneLast(r) =>
          /\ req[r].h = "allOrders" /\ OrderMutationBefore(r, OrderMutations, LAMBDA s : TRUE)
               => req[r].out = OrdersAll
          /\ req[r].h = "myOrders"
             /\ OrderMutationBefore(r, OrderMutations, LAMBDA s : MutatedOrderUser(s) = req[r].q)
               => req[r].out = OrdersOfUser(req[r].q)
          /\ req[r].h = "getSingleOrder"
             /\ OrderMutationBefore(r, {"processOrder", "deleteOrder"},
                                    LAMBDA s : req[s].a = req[r].a)
               => IF req[r].a \in DOMAIN orders
                  THEN req[r].code = 200
                       /\ req[r].out = OrderJSONPopulated(orders[req[r].a])
                  ELSE req[r].code = 404

\* The product referenced by the review a completed review request created,
\* updated or deleted.
ReviewedProduct(s) ==
    IF req[s].h = "newReview" THEN req[s].a ELSE req[s].doc2[1].product

\* C13: with requests handled one at a time, an allReviewsOfProduct read that
\* follows a newReview or deleteReview answered with success, for the product
\* the written or deleted review references, answers with the reviews of that
\* product as the store holds them, whatever productId and reviewId the
\* deleteReview was given.
C13_ReviewReadsAfterMutation ==
    \A r \in Slots :
        /\ RanAloneLast(r)
        /\ req[r].h = "allReviewsOfProduct"
        /\ \E s \in Slots :
             /\ s < r /\ req[s].pc = "done" /\ req[s].h \in ReviewHandlers
             /\ req[s].code \in {200, 201}
             /\ ReviewedProduct(s) = req[r].a
        => req[r].out = ReviewsOfProduct(reviews, req[r].a)

\* The keys of the filtered product lists.
ProductsKeys(c) == {k \in DOMAIN c : k[1] = "products-"}

\* C14 (the entries): a products-* entry is written with a time to live of 30
\* and never lives longer; no step of a handler deletes one, and none but the
\* setex of a getAllProducts miss for that key rewrites it.
C14_EntryStep ==
    /\ \A k \in ProductsKeys(cache') \ ProductsKeys(cache) : cache'[k].ttl = 30
    /\ (\E r \in Slots : req'[r].pc # req[r].pc) =>
         \A k \in ProductsKeys(cache) :
             /\ k \in DOMAIN cache'
             /\ \/ cache'[k] = cache[k]
                \/ /\ cache'[k].ttl = 30
                   /\ \E r \in Slots : /\ req[r].h = "getAllProducts"
                                        /\ req[r].pc = "setex" /\ req'[r].pc = "done"
                                        /\ KeyProducts(req[r].body) = k
C14_EntryAge == \A k \in ProductsKeys(cache) : cache[k].ttl \in 1..30

\* C14 (the reads): a getAllProducts request answered at this moment, with
\* every product mutation answered at least 30 units ago and none running,
\* has answered with the store's result.
C14_ReadAfterTTL ==
    \A r \in Slots :
        /\ req[r].h = "getAllProducts" /\ req[r].pc = "done" /\ req[r].age = 0
        /\ \A s \in Slots : s > r => req[s].pc = "idle"
        /\ \A s \in Slots : req[s].h \in ProductMutations =>
               req[s].pc = "done" /\ req[s].age >= 30
        /\ \E s \in Slots : req[s].h \in ProductMutations
        => /\ req[r].out.products = ProductsPage(products, req[r].body)
           /\ req[r].out.totalPage = TotalPage(products, req[r].body)

\* C14: the filtered product lists are bounded by their time to live alone.
C14_ProductListTTL == [][C14_EntryStep]_vars /\ [](C14_EntryAge /\ C14_ReadAfterTTL)

\* One of the six required fields of a newOrder body was not sent.
NewOrderMissing(b) ==
    \/ b.shippingInfo = ""
    \/ ~b.orderItems.def
    \/ b.user = ""
    \/ b.subtotal = Undefined
    \/ b.tax = Undefined
    \/ b.total = Undefined

\* C15 (the first step): newOrder with a required field missing answers 400
\* and creates nothing; with all six sent it creates exactly one order.
C15_CreateStep ==
    \A r \in Slots :
        req[r].pc = "idle" /\ req'[r].h = "newOrder" =>
          IF NewOrderMissing(req'[r].body)
          THEN req'[r].code = 400 /\ orders' = orders
          ELSE /\ req'[r].code # 400
               /\ req'[r].a \notin DOMAIN orders
               /\ DOMAIN orders' = DOMAIN orders \cup {req'[r].a}

\* C15 (the answer): 400 exactly for a missing field, and 201 when all six
\* were sent, whatever the numbers.
C15_Answer ==
    \A r \in Slots :
        req[r].h = "newOrder" /\ req[r].pc = "done" =>
          /\ req[r].code = 400 <=> NewOrderMissing(req[r].body)
          /\ ~NewOrderMissing(req[r].body) => req[r].code = 201

\* C15: the validation of newOrder.
C15_NewOrderValidation == [][C15_CreateStep]_vars /\ []C15_Answer

\* The request of slot r takes this step.
Moved(r) == [req'[r] EXCEPT !.alone = req[r].alone] # req[r]

ErrorExitHandlers ==
    {"getSingleProduct", "getSingleOrder", "newOrder", "processOrder", "deleteOrder",
     "updateProduct", "deleteProduct", "newReview", "deleteReview"}

\* C16 (the steps): the step in which a handler answers 400 or 404, and every
\* step a handler takes before its first store write and before its answer,
\* leaves the store and the cache as they are.
C16_ErrorStep ==
    \A r \in Slots :
        /\ Moved(r) /\ req'[r].h \in ErrorExitHandlers
        /\ req'[r].writes = 0
        /\ req'[r].pc # "done" \/ req'[r].code \in {400, 404}
        => UNCHANGED <<products, orders, reviews, cache>>

\* C16 (the answer): a handler that has answered 400 or 404 has written
\* nothing to the store and has not invalidated.
C16_ErrorAnswer ==
    \A r \in Slots :
        req[r].h \in ErrorExitHandlers /\ req[r].pc = "done" /\ req[r].code \in {400, 404}
          => req[r].writes = 0 /\ req[r].invAt = -1

\* C16: a handler that ends in 400 or 404 changes neither store nor cache.
C16_ErrorsChangeNothing == [][C16_ErrorStep]_vars /\ []C16_ErrorAnswer

\* C16's cases: a getSingleProduct for an absent id answered 404 with no
\* product-{id} entry written, and a deleteReview answered 404 for an absent
\* review after it had found its product.
C16_Witness ==
    /\ \E r \in Slots : /\ req[r].h = "getSingleProduct" /\ req[r].code = 404
                         /\ ~RedisHit(KeyProduct(req[r].a))
    /\ \E r \in Slots : /\ req[r].h = "deleteReview" /\ req[r].code = 404
                         /\ req[r].doc # <<>>

ReadHandlers ==
    {"myOrders", "allOrders", "getSingleOrder", "getlatestProducts", "getAllCategories",
     "getAdminProducts", "getSingleProduct", "getAllProducts", "allReviewsOfProduct"}

\* The cache key of a read request.
OwnKey(rec) ==
    CASE rec.h = "myOrders" -> KeyMyOrders(rec.q)
      [] rec.h = "allOrders" -> KeyAllOrders
      [] rec.h = "getSingleOrder" -> KeyOrder(rec.a)
      [] rec.h = "getlatestProducts" -> KeyLatest
      [] rec.h = "getAllCategories" -> KeyCategories
      [] rec.h = "getAdminProducts" -> KeyAllProducts
      [] rec.h = "getSingleProduct" -> KeyProduct(rec.a)
      [] rec.h = "getAllProducts" -> KeyProducts(rec.body)
      [] OTHER -> KeyReviews(rec.a)

\* What the store holds for a read request (its documents exist).
StoreResult(rec) ==
    CASE rec.h = "myOrders" -> OrdersOfUser(rec.q)
      [] rec.h = "allOrders" -> OrdersAll
      [] rec.h = "getSingleOrder" -> OrderJSONPopulated(orders[rec.a])
      [] rec.h = "getlatestProducts" -> ProductsLatest(products)
      [] rec.h = "getAllCategories" -> Categories(products)
      [] rec.h = "getAdminProducts" -> ProductsAll(products)
      [] rec.h = "getSingleProduct" -> ProductJSON(products[rec.a])
      [] OTHER -> ReviewsOfProduct(reviews, rec.a)

\* What a read request has fetched from the store by the time of its setex.
Fetched(rec) ==
    IF rec.h = "getAllProducts"
    THEN [products |-> rec.doc[1], totalPage |-> rec.b]
    ELSE rec.out

\* C17: a step of a read handler never changes the store.  The step that finds
\* the key present answers at once, with no store read, and leaves the cache
\* as it is; the get and the store reads of a miss leave the cache as it is
\* and fetch what the store holds; the setex sets the handler's own key, and
\* no other, to what was fetched, with the default time to live (30 for a
\* products-* key).
C17_ReadStep ==
    \A r \in Slots :
        Moved(r) /\ req'[r].h \in ReadHandlers =>
          /\ UNCHANGED <<products, orders, reviews>>
          /\ IF req[r].pc = "setex"
             THEN LET k == OwnKey(req[r])
                  IN /\ DOMAIN cache' = DOMAIN cache \cup {k}
                     /\ \A x \in DOMAIN cache \ {k} : cache'[x] = cache[x]
                     /\ cache'[k].text = Fetched(req[r])
                     /\ cache'[k].ttl = IF req[r].h = "getAllProducts" THEN 30 ELSE RedisTTL
                     /\ req'[r].pc = "done" /\ req'[r].out = Fetched(req[r])
             ELSE UNCHANGED cache
          /\ req[r].pc = "idle" /\ RedisHit(OwnKey(req'[r])) /\ req'[r].code # 400
               => req'[r].pc = "done" /\ req'[r].hit
          /\ req[r].pc = "idle" /\ ~RedisHit(OwnKey(req'[r])) => ~req'[r].hit
          /\ req[r].pc = "find" /\ req'[r].pc = "setex" /\ req[r].h # "getAllProducts"
               => req'[r].out = StoreResult(req[r])
          /\ req[r].pc = "find" /\ req[r].h = "getAllProducts" =>
               /\ req'[r].doc # req[r].doc
                    => req'[r].doc = <<ProductsPage(products, req[r].body)>>
               /\ req'[r].b # req[r].b => req'[r].b = TotalPage(products, req[r].body)
C17_ReadsSetOwnKeyOnly == [][C17_ReadStep]_vars

\* C17's case: one read has missed and written its own key with what it
\* fetched, and another has answered from the cache.
C17_Witness ==
    /\ \E r \in Slots : req[r].h \in ReadHandlers /\ req[r].pc = "done" /\ req[r].hit
    /\ \E r \in Slots :
         /\ req[r].h \in ReadHandlers /\ req[r].pc = "done" /\ ~req[r].hit
         /\ req[r].code = 200
         /\ RedisHit(OwnKey(req[r])) /\ RedisGet(OwnKey(req[r])) = Fetched(req[r])

\* The keys processOrder and deleteOrder delete for the order they loaded.
OrderKeysOf(rec) == {KeyAllOrders, KeyMyOrders(rec.doc[1].user), KeyOrder(rec.a)}

\* C18: a step of processOrder or deleteOrder leaves every product, every
\* review and every order but the addressed one as it is; processOrder changes
\* at most the status of its order and deleteOrder at most removes its order;
\* the invalidation deletes all-orders, my-orders-{order.user} and order-{id}
\* and leaves every key of products and reviews as it is, and no other step
\* of the two touches the cache.
C18_OrderStep ==
    \A r \in Slots :
        Moved(r) /\ req'[r].h \in {"processOrder", "deleteOrder"} =>
          LET id == req'[r].a
          IN /\ UNCHANGED <<products, reviews>>
             /\ DOMAIN orders' \subseteq DOMAIN orders
             /\ \A o \in DOMAIN orders \ {id} : o \in DOMAIN orders' /\ orders'[o] = orders[o]
             /\ req'[r].h = "processOrder" /\ id \in DOMAIN orders =>
                  /\ id \in DOMAIN orders'
                  /\ [orders'[id] EXCEPT !.status = orders[id].status] = orders[id]
             /\ req'[r].h = "deleteOrder" /\ id \in DOMAIN orders' => orders'[id] = orders[id]
             /\ IF req[r].pc = "inv"
                THEN /\ DOMAIN cache' \subseteq DOMAIN cache
                     /\ \A k \in OrderKeysOf(req[r]) : k \notin DOMAIN cache'
                     /\ \A k \in DOMAIN cache \ (OrderKeysOf(req[r]) \cup AdminKeys) :
                          k \in DOMAIN cache' /\ cache'[k] = cache[k]
                ELSE UNCHANGED cache
====
